---- MODULE Spec2Model ----
(***************************************************************************)
(* btrfs-backup: one invocation of main() after another on one host, the   *)
(* local snapshot directories and the remote backup directory they act on. *)
(* Time is counted in ticks of half a day; a name carries the wall-clock   *)
(* reading of the local zone, which time.Parse reads back as UTC.          *)
(***************************************************************************)
EXTENDS Integers, Sequences, FiniteSets, TLC

\* ---------------------------------------------------------------- bounds
\* The last tick at which an invocation may start.
MaxTime == 3
\* The largest timestamp of the inventories cleanupOldBackups is applied to
\* on its own, and of those needsFullBackup is applied to on its own.
MaxStamp == 4
MaxPolicyStamp == 3
\* The number of failures (a command failing, stored bytes differing from the
\* bytes sent, the process being killed) the environment inflicts in all.
MaxFaults == 1

\* Ticks per day: 24*time.Hour in units of twelve hours.
Day == 2

\* The Write calls of one transfer, and the greatest length of one buffer.
MaxWrites == 3
MaxChunk == 2

\* The volumes of the configuration file, in their configured order.
Volumes == <<"root", "home">>
\* The zone offsets of the host, in ticks (UTC-12, UTC, UTC+12).
Zones == {0 - 1, 0, 1}
\* The max_age_days and max_incrementals values a caller may pass.
AgeChoices == {0, 1, 7}
IncChoices == {0, 1, 2}
\* max_age_days when the configuration file sets none.
DefaultMaxAgeDays == 7
\* The lines of a listing, and the timestamps in them.
MaxLines == 2
MaxListStamp == 2
\* The chunks an OS pipe holds, and the chunks of a send stream.
PipeCap == 1
MaxStream == 3
\* The invocations that may be alive on the host at one time.
MaxInstances == 2
Instances == 1..MaxInstances
\* Text is a sequence of pieces; these pieces are white space.
Space == {" ", "\n"}
\* strings.TrimSpace
RECURSIVE TrimSpace(_)
TrimSpace(s) ==
    IF s = <<>> THEN s
    ELSE IF Head(s) \in Space THEN TrimSpace(Tail(s))
    ELSE IF s[Len(s)] \in Space THEN TrimSpace(SubSeq(s, 1, Len(s) - 1))
    ELSE s
\* No age recipient: the stream is sent as btrfs produces it.
NoKey == <<>>
\* loadConfig: the thresholds and the age recipient read from a
\* configuration file.
loadConfig(yaml) ==
    [MaxAgeDays |-> IF yaml.max_age_days = 0 THEN DefaultMaxAgeDays
                    ELSE yaml.max_age_days,
     MaxIncrementals |-> yaml.max_incrementals,
     EncryptionKey |-> TrimSpace(yaml.encryption_key)]
\* The configuration files of the hosts: one that sets no threshold and no
\* recipient, one that sets both thresholds and a recipient.
ConfigFiles ==
    {[max_age_days |-> 0, max_incrementals |-> 0, encryption_key |-> <<>>],
     [max_age_days |-> 1, max_incrementals |-> 2,
      encryption_key |-> <<"age1recipient", "\n">>]}

VARIABLES
    now,        \* the host clock (an instant, in ticks)
    tz,         \* the host's zone offset
    cfg,        \* the loaded Config: MaxAgeDays, MaxIncrementals
    local,      \* per volume: the directories found in its snapdir
    remote,     \* the files of the remote directory
    pc,         \* the position of the running invocation in main(), or "idle"
    run,        \* the locals of main(): flags, currentTime, loop variables
    exitCode,   \* how the last invocation ended
    faults,     \* the failures the environment may still inflict
    verified,   \* final names whose validateRemoteChecksum returned nil
    needs,      \* the last call of needsFullBackup: arguments and result
    pruned,     \* the last call of cleanupOldBackups: listing and deletions
    ended,      \* how and where the last invocation ended
    inst,       \* per invocation on the host: its position before the loops
    lock,       \* the invocations whose descriptor holds the lock on the lock file
    output,     \* the lines a remote `ls -1` printed
    listed,     \* what listRemoteBackups made of them
    snapDir,    \* what os.ReadDir returns for a snapshot directory
    found,      \* what latestSnapshot made of it
    pipe,       \* the stages, pipes and waits of one sendSnapshot call
    pw          \* a ProgressWriter, its goroutines and its callers

vars == <<now, tz, cfg, local, remote, pc, run, exitCode, faults, verified,
          needs, pruned, ended, inst, lock, output, listed, snapDir, found,
          pipe, pw>>

\* ------------------------------------------------------------ names, time
Range(s) == {s[i] : i \in 1..Len(s)}

\* Time.Format(snapshotTimestampFormat): the reading of the local clock.
Format(t) == t + tz
\* time.Parse(snapshotTimestampFormat, s): the reading taken as UTC.
Parse(w) == w

\* A path in a snapshot directory; the empty string is EmptyPath.
EmptyPath == [form |-> "", ts |-> 0]
\* filepath.Join(snapDir, "btrfs-backup-" + stamp)
SnapPath(w) == [form |-> "btrfs-backup", ts |-> w]
\* A directory that is not of the tool's making and holds no timestamp.
ForeignPath == [form |-> "manual", ts |-> 0]

\* Whether snapshotTimestampRegexp matches and time.Parse accepts the match.
HasTimestamp(path) == path.form = "btrfs-backup"
extractSnapshotTimestamp(path) == Parse(path.ts)

\* Byte-wise order of two directory names (sort.StringSlice).
NameLess(a, b) ==
    \/ a.form = "btrfs-backup" /\ b.form = "manual"
    \/ a.form = b.form /\ a.ts < b.ts

\* os.ReadDir of a snapshot directory that exists and holds the directories
\* dirs and nothing else.
ReadDir(dirs) ==
    [err |-> FALSE, entries |-> {[path |-> d, isDir |-> TRUE] : d \in dirs}]
\* latestSnapshot has not been called.
NotFound == [called |-> FALSE, path |-> EmptyPath, err |-> FALSE]

\* A latestSnapshot that takes every entry for a directory.
latestSnapshotOfEntries(read) ==
    LET names == {e.path : e \in read.entries}
    IN  IF read.err \/ names = {} THEN EmptyPath
        ELSE CHOOSE d \in names : \A e \in names : e = d \/ NameLess(e, d)

\* latestSnapshot: the first name of the directories in reverse order.
latestSnapshot(read) ==
    IF read.err \/ read.entries = {} THEN EmptyPath
    ELSE LET names == {e.path : e \in {x \in read.entries : x.isDir}}
         IN  IF names = {} THEN EmptyPath
             ELSE CHOOSE d \in names : \A e \in names : e = d \/ NameLess(e, d)

\* A remote file: <vol>-<ts>.<kind><suffix><ext>.  base is the timestamp of
\* the parent snapshot of the stream (none for a full stream); data tells
\* whether the stored bytes are the stream that was sent.
File(v, w, k, e, b, d) ==
    [vol |-> v, ts |-> w, kind |-> k, ext |-> e, base |-> b, data |-> d]
NameOf(f) == [vol |-> f.vol, ts |-> f.ts, kind |-> f.kind]
Named(n, e) == {f \in remote : NameOf(f) = n /\ f.ext = e}

NoChecksum == <<>>
\* The content of the files of hand-made remote directories.
SomeBytes ==
    [key |-> <<>>, vol |-> "", base |-> {}, snap |-> 0, part |-> "all"]
\* fmt.Sprintf("%x", hasher.Sum(nil)) and the first field of sha256sum.
Sha256(d) == <<"sha256", d>>

\* ------------------------------------------------------- remote inventory
remoteFileSuffix(c) ==
    IF c.EncryptionKey # NoKey THEN ".btrfs.age" ELSE ".btrfs"

\* A line of the output of `ls -1`, as far as namePattern and time.Parse tell
\* lines apart: <vol>-<stamp>.<kind><suffix><ext>, with or without white
\* space around it.  form is "stamp" for a timestamp, "digits" for digits in
\* the timestamp's places that are no date (a month 13), "text" otherwise.
\* The line of a file of the model, written under the configuration:
Line(f) ==
    [pad |-> FALSE, vol |-> f.vol, form |-> "stamp", ts |-> f.ts,
     kind |-> f.kind, suffix |-> remoteFileSuffix(cfg), ext |-> f.ext]
\* strings.TrimSpace(line)
TrimLine(line) == [line EXCEPT !.pad = FALSE]
\* Whether re.FindStringSubmatch(line) yields the three groups: namePattern
\* is anchored at both ends.
namePattern(c, v, line) ==
    /\ ~line.pad
    /\ line.vol = v
    /\ line.form \in {"stamp", "digits"}
    /\ line.kind \in {"full", "inc"}
    /\ line.suffix = remoteFileSuffix(c)
    /\ line.ext = ""
\* Whether time.Parse(snapshotTimestampFormat, match[1]) returns no error.
ParseOk(line) == line.form = "stamp"

\* The files whose lines namePattern matches for volume v: final names,
\* neither temp files nor checksum sidecars (the line of a file has no
\* padding, a timestamp and the configured suffix).
Matches(files, v) == {f \in files : f.vol = v /\ f.ext = ""}
\* remoteBackup{Name, Timestamp, Kind} of a trimmed line.
Backup(line) == [name |-> line, ts |-> Parse(line.ts), kind |-> line.kind]

\* sort.Slice by Timestamp.Before: every ascending order (it is not stable).
RECURSIVE SortedByTime(_)
SortedByTime(S) ==
    IF S = {} THEN {<<>>}
    ELSE LET first == {b \in S : \A c \in S : b.ts <= c.ts}
         IN  UNION {{<<b>> \o rest : rest \in SortedByTime(S \ {b})} : b \in first}

\* The loop over the lines and the sort: one entry for each line that, once
\* trimmed, matches namePattern and holds a date.
parseListing(c, v, lines) ==
    LET kept == {x \in lines :
                    namePattern(c, v, TrimLine(x)) /\ ParseOk(TrimLine(x))}
        timed == {[line |-> x, ts |-> Parse(x.ts)] : x \in kept}
    IN  {[i \in 1..Len(l) |-> Backup(TrimLine(l[i].line))] :
            l \in SortedByTime(timed)}

ListError == [err |-> TRUE, backups |-> <<>>]
\* listRemoteBackups has not been called.
NoListing == [called |-> FALSE, failed |-> FALSE, err |-> FALSE, backups |-> <<>>]
\* The results listRemoteBackups may return: the ssh command fails, or the
\* matching lines of its output come back parsed and sorted.
listRemoteBackups(files, v) ==
    {ListError} \cup
    {[err |-> FALSE, backups |-> l] :
        l \in parseListing(cfg, v, {Line(f) : f \in files})}

remoteBackupForTimestamp(backups, t) ==
    \E i \in 1..Len(backups) : backups[i].ts = t

\* The index of the first full entry, 0 for nil.
earliestRemoteFull(backups) ==
    LET fulls == {i \in 1..Len(backups) : backups[i].kind = "full"}
    IN  IF fulls = {} THEN 0 ELSE CHOOSE i \in fulls : \A j \in fulls : i <= j

\* The index of the last full entry, 0 for nil.
latestRemoteFull(backups) ==
    LET fulls == {i \in 1..Len(backups) : backups[i].kind = "full"}
    IN  IF fulls = {} THEN 0 ELSE CHOOSE i \in fulls : \A j \in fulls : j <= i

countIncrementalsSince(backups, since) ==
    Cardinality({i \in 1..Len(backups) :
                    backups[i].kind = "inc" /\ backups[i].ts > since})

\* ---------------------------------------------------------- policy engine
\* The age rule with the boundary left out.
TooOldStrict(lastFull, currentTime, maxAgeDays) ==
    maxAgeDays > 0 /\ currentTime - lastFull.ts > maxAgeDays * Day

\* The age rule of needsFullBackup.
TooOld(lastFull, currentTime, maxAgeDays) ==
    maxAgeDays > 0 /\ currentTime - lastFull.ts >= maxAgeDays * Day

\* The incremental-count rule with the boundary left out.
TooManyStrict(backups, lastFull, maxIncrementals) ==
    /\ maxIncrementals > 0
    /\ countIncrementalsSince(backups, lastFull.ts) > maxIncrementals

\* The incremental-count rule of needsFullBackup.
TooMany(backups, lastFull, maxIncrementals) ==
    /\ maxIncrementals > 0
    /\ countIncrementalsSince(backups, lastFull.ts) >= maxIncrementals

\* The inventory rules without the check for the snapshot's own entry.
NeedsFullForNoGap(backups, oldSnap, currentTime, c) ==
    IF ~HasTimestamp(oldSnap) THEN TRUE
    ELSE IF latestRemoteFull(backups) = 0 THEN TRUE
    ELSE LET lastFull == backups[latestRemoteFull(backups)]
         IN  \/ TooOld(lastFull, currentTime, c.MaxAgeDays)
             \/ TooMany(backups, lastFull, c.MaxIncrementals)

\* The rules that read the retrieved, non-empty inventory.
NeedsFullFor(backups, oldSnap, currentTime, c) ==
    IF ~HasTimestamp(oldSnap) THEN TRUE
    ELSE IF ~remoteBackupForTimestamp(backups, extractSnapshotTimestamp(oldSnap))
    THEN TRUE
    ELSE IF latestRemoteFull(backups) = 0 THEN TRUE
    ELSE LET lastFull == backups[latestRemoteFull(backups)]
         IN  \/ TooOld(lastFull, currentTime, c.MaxAgeDays)
             \/ TooMany(backups, lastFull, c.MaxIncrementals)

\* needsFullBackup listing the remote before it looks at oldSnap.
needsFullBackupListFirst(c, listing, oldSnap, currentTime) ==
    IF listing.err THEN [full |-> TRUE, listed |-> TRUE]
    ELSE IF oldSnap = EmptyPath \/ Len(listing.backups) = 0
    THEN [full |-> TRUE, listed |-> TRUE]
    ELSE [full |-> NeedsFullFor(listing.backups, oldSnap, currentTime, c),
          listed |-> TRUE]

\* needsFullBackup answering "incremental" when the listing fails.
needsFullBackupTrustError(c, listing, oldSnap, currentTime) ==
    IF oldSnap = EmptyPath THEN [full |-> TRUE, listed |-> FALSE]
    ELSE IF listing.err THEN [full |-> FALSE, listed |-> TRUE]
    ELSE IF Len(listing.backups) = 0 THEN [full |-> TRUE, listed |-> TRUE]
    ELSE [full |-> NeedsFullFor(listing.backups, oldSnap, currentTime, c),
          listed |-> TRUE]

\* needsFullBackup, given what listRemoteBackups returns when it is called;
\* listed tells whether it was called.
needsFullBackup(c, listing, oldSnap, currentTime) ==
    IF oldSnap = EmptyPath THEN [full |-> TRUE, listed |-> FALSE]
    ELSE IF listing.err THEN [full |-> TRUE, listed |-> TRUE]
    ELSE IF Len(listing.backups) = 0 THEN [full |-> TRUE, listed |-> TRUE]
    ELSE [full |-> NeedsFullFor(listing.backups, oldSnap, currentTime, c),
          listed |-> TRUE]

\* -------------------------------------------------------------- retention
\* The selection with the cut taken from the listing, not from the fulls.
ToDeleteByListing(backups) ==
    IF Len(backups) < 2 THEN <<>>
    ELSE LET secondToLast == backups[Len(backups) - 1]
         IN  SelectSeq(backups, LAMBDA b : b.ts < secondToLast.ts)

\* The selection that keeps the latest chain alone.
ToDeleteLatestChain(backups) ==
    IF Len(backups) < 2 THEN <<>>
    ELSE LET fullBackups == SelectSeq(backups, LAMBDA b : b.kind = "full")
         IN  IF Len(fullBackups) < 1 THEN <<>>
             ELSE LET lastFull == fullBackups[Len(fullBackups)]
                  IN  SelectSeq(backups, LAMBDA b : b.ts < lastFull.ts)

\* The entries cleanupOldBackups selects for deletion, in listing order.
ToDelete(backups) ==
    IF Len(backups) < 2 THEN <<>>
    ELSE LET fullBackups == SelectSeq(backups, LAMBDA b : b.kind = "full")
         IN  IF Len(fullBackups) < 2 THEN <<>>
             ELSE LET secondToLastFull == fullBackups[Len(fullBackups) - 1]
                  IN  SelectSeq(backups, LAMBDA b : b.ts < secondToLastFull.ts)

\* rmArgs without the checksum sidecars.
RmArgsNoSidecar(toDelete) ==
    {[name |-> toDelete[i].name, ext |-> ""] : i \in 1..Len(toDelete)}

\* rmArgs: for each selected entry its file and its checksum sidecar.
RmArgs(toDelete) ==
    {[name |-> toDelete[i].name, ext |-> e] :
        i \in 1..Len(toDelete), e \in {"", ".sha256"}}
\* The files a set of rm arguments names.
FilesNamed(files, args) ==
    {f \in files : [name |-> [Line(f) EXCEPT !.ext = ""], ext |-> f.ext] \in args}

\* ------------------------------------------------------------------ main
IdleRun ==
    [dryRun |-> FALSE, force |-> FALSE, currentTime |-> 0, idx |-> 0,
     oldSnap |-> EmptyPath, newSnap |-> EmptyPath, full |-> FALSE,
     checksum |-> NoChecksum, denied |-> FALSE]
NoCall ==
    [called |-> FALSE, listing |-> ListError, oldSnap |-> EmptyPath,
     currentTime |-> 0, full |-> FALSE, listed |-> FALSE]
NoPrune ==
    [called |-> FALSE, listing |-> ListError, before |-> {}, deleted |-> {},
     err |-> FALSE]
\* No invocation has ended since the last one started.
NoEnd ==
    [step |-> "", rm |-> "", vol |-> "", outfile |-> [vol |-> "", ts |-> 0, kind |-> ""],
     oldSnap |-> EmptyPath, newSnap |-> EmptyPath, dryRun |-> FALSE,
     had |-> {}]

\* The pipeline of sendSnapshot once its stages are started.  sendCmd writes
\* the left chunks to the pipe p1; with encryption encryptCmd moves them from
\* p1 to the pipe p2; the goroutine that exec starts for sshCmd.Stdin (copier)
\* reads the last of these pipes through the TeeReader, holding one chunk at
\* a time, and writes to sshCmd's stdin pipe p3; main is where sendSnapshot is.
StartedPipe(enc, n) ==
    [enc |-> enc, left |-> n,
     sendCmd |-> "run", p1 |-> 0,
     encryptCmd |-> IF enc THEN "run" ELSE "none", p2 |-> 0,
     copier |-> "run", held |-> 0, p3 |-> 0,
     sshCmd |-> "run", main |-> "Run", waited |-> {}]
\* The same before sendCmd.Start: no stage is started, no goroutine runs.
\* waited holds the stages whose Wait has returned.
NewPipe(enc, n) ==
    [StartedPipe(enc, n) EXCEPT
        !.sendCmd = "unstarted",
        !.encryptCmd = IF enc THEN "unstarted" ELSE "none",
        !.copier = "unstarted", !.sshCmd = "unstarted",
        !.main = "sendCmd.Start"]
\* No sendSnapshot call is under way.
NoPipe == [StartedPipe(FALSE, 0) EXCEPT !.sendCmd = "none", !.copier = "none",
                                        !.sshCmd = "none", !.main = "none"]

\* A ProgressWriter as NewProgressWriter returns it: counters at zero, the
\* mutex free, the ticker running, displayLoop started.  mu is the holder of
\* the mutex; tick is a tick waiting in updateTicker.C; loop, write and fin are
\* the positions of displayLoop, of the Write call of the forwarding path and
\* of Finish; p is the length of the buffer of the Write call under way.
\* calls, total, ret and bare record the history: the Write calls made, the
\* lengths of those that returned, what the last one returned, and whether
\* a counter was ever read or written by a goroutine not holding the mutex.
NewProgressWriter ==
    [bytesWritten |-> 0, lastBytes |-> 0, mu |-> "free",
     updateTicker |-> "running", tick |-> FALSE,
     loop |-> "select", write |-> "idle", p |-> 0, fin |-> "idle",
     calls |-> 0, total |-> 0, ret |-> [n |-> 0, err |-> FALSE],
     shown |-> 0, bare |-> FALSE]
\* No ProgressWriter was made.
NoProgress == [NewProgressWriter EXCEPT !.updateTicker = "none", !.loop = "none"]

\* An invocation that is not running, and has not run.
Off == [at |-> "off", code |-> "none", step |-> "", vol |-> 0, touched |-> FALSE]

Init ==
    /\ now = 0
    /\ tz \in Zones
    /\ cfg \in {loadConfig(y) : y \in ConfigFiles}
    \* the zone shifts the age rule alone: it is varied where that rule is in reach
    /\ cfg.MaxAgeDays * Day > MaxTime + 1 => tz = 0
    /\ local = [v \in Range(Volumes) |-> {}]
    /\ remote = {}
    /\ pc = "idle"
    /\ run = IdleRun
    /\ exitCode = "none"
    /\ faults = MaxFaults
    /\ verified = {}
    /\ needs = NoCall
    /\ pruned = NoPrune
    /\ ended = NoEnd
    /\ inst = [i \in Instances |-> Off]
    /\ lock = {}
    /\ output = {}
    /\ listed = NoListing
    /\ snapDir = ReadDir({})
    /\ found = NotFound
    /\ pipe = NoPipe
    /\ pw = NoProgress

\* The volume the loop of main() is at.
Vol == Volumes[run.idx]
\* outfile of main(): the final name of this volume's backup.
Outfile ==
    [vol |-> Vol, ts |-> Format(run.currentTime),
     kind |-> IF run.full THEN "full" ELSE "inc"]
\* sendArgs with `-p oldSnap` in every call.
BaseAlways == {run.oldSnap.ts}
\* The base snapshot `btrfs send -p` is given: none for a full stream.
Base == IF run.full THEN {} ELSE {run.oldSnap.ts}

\* os.Exit(code), or the return of main(): the process is gone.
Exit(code) ==
    /\ pc' = "idle"
    /\ run' = IdleRun
    /\ exitCode' = code
\* The invocation ends in the given step; rm tells how the removal of the
\* remote file went, where the step runs one, and had which files of the
\* volume's backup stood on the remote before the step.
End(step, rm) ==
    ended' = [step |-> step, rm |-> rm,
              vol |-> IF run.idx = 0 THEN "" ELSE Vol,
              outfile |-> IF run.idx = 0 THEN NoEnd.outfile ELSE Outfile,
              oldSnap |-> run.oldSnap, newSnap |-> run.newSnap,
              dryRun |-> run.dryRun,
              had |-> IF run.idx = 0 THEN {}
                      ELSE {f \in remote : NameOf(f) = Outfile}]
Live == ended' = NoEnd
\* The end of the loop body: the next volume, or the return of main().
NextVolume ==
    IF run.idx < Len(Volumes)
    THEN /\ pc' = "volume"
         /\ Live
         /\ run' = [run EXCEPT !.idx = run.idx + 1, !.oldSnap = EmptyPath,
                               !.newSnap = EmptyPath, !.full = FALSE,
                               !.checksum = NoChecksum]
         /\ UNCHANGED exitCode
    ELSE Exit("0") /\ End("done", "")
Goto(label) == pc' = label /\ Live /\ UNCHANGED <<run, exitCode>>
Quiet == needs' = NoCall /\ pruned' = NoPrune
\* A step in which the environment fails, and one in which it does not.
Fault == faults > 0 /\ faults' = faults - 1
NoFault == UNCHANGED faults

\* An invocation starts: flags parsed, lock taken, config loaded, time read.
StartRun ==
    /\ pc = "idle"
    /\ \E t \in now..MaxTime, d \in BOOLEAN, f \in BOOLEAN :
        /\ t >= 1
        /\ now' = t
        /\ run' = [IdleRun EXCEPT !.dryRun = d, !.force = f, !.currentTime = t]
    /\ pc' = "access"
    /\ Live
    /\ exitCode' = "running"
    /\ Quiet /\ NoFault
    /\ UNCHANGED <<pw, inst, lock, output, listed, snapDir, found, pipe, tz, cfg, local, remote, verified>>

\* A first loop that calls checkBtrfsAccess in no run.
CheckAccessUnchecked ==
    /\ pc = "access"
    /\ \/ /\ run' = [run EXCEPT !.idx = 1]
          /\ NoFault
       \/ /\ run' = [run EXCEPT !.idx = 1, !.denied = TRUE]
          /\ Fault
    /\ pc' = "volume"
    /\ Live
    /\ UNCHANGED exitCode
    /\ Quiet
    /\ UNCHANGED <<pw, inst, lock, output, listed, snapDir, found, pipe, now, tz, cfg, local, remote, verified>>

\* The first loop of main(): checkBtrfsAccess for every volume, outside a dry
\* run.  run.denied tells that `btrfs subvolume list` would fail for a volume
\* of a run that has gone past the loop.
CheckAccess ==
    /\ pc = "access"
    /\ \/ /\ pc' = "volume"
          /\ Live
          /\ run' = [run EXCEPT !.idx = 1]
          /\ UNCHANGED exitCode
          /\ NoFault
       \/ ~run.dryRun /\ Exit("1") /\ End("access", "") /\ Fault
       \/ /\ run.dryRun
          /\ pc' = "volume"
          /\ Live
          /\ run' = [run EXCEPT !.idx = 1, !.denied = TRUE]
          /\ UNCHANGED exitCode
          /\ Fault
    /\ Quiet
    /\ UNCHANGED <<pw, inst, lock, output, listed, snapDir, found, pipe, now, tz, cfg, local, remote, verified>>

\* The choice of main() with the force flag left out.
fullSnapshotUnforced(force, res) == res.full

\* fullSnapshot of main(): forced, or what needsFullBackup answers.
fullSnapshot(force, res) == force \/ res.full

\* latestSnapshot and the choice between full and incremental.
Decide ==
    /\ pc = "volume"
    /\ LET oldSnap == latestSnapshot(ReadDir(local[Vol]))
       IN  \E listing \in listRemoteBackups(remote, Vol) :
             LET res == needsFullBackup(cfg, listing, oldSnap, run.currentTime)
             IN  /\ listing.err => ~run.force /\ res.listed
                 /\ IF listing.err THEN Fault ELSE NoFault
                 /\ run' = [run EXCEPT !.oldSnap = oldSnap,
                                       !.full = fullSnapshot(run.force, res)]
                 /\ needs' = IF run.force THEN NoCall
                             ELSE [called |-> TRUE, listing |-> listing,
                                   oldSnap |-> oldSnap,
                                   currentTime |-> run.currentTime,
                                   full |-> res.full, listed |-> res.listed]
    /\ pc' = "exists"
    /\ Live
    /\ pruned' = NoPrune
    /\ UNCHANGED <<pw, inst, lock, output, listed, snapDir, found, pipe, now, tz, cfg, local, remote, exitCode, verified>>

\* A loop body that goes on to createSnapshot over an existing backup.
SkipVolumeNever ==
    /\ pc = "exists"
    /\ Named(Outfile, "") # {}
    /\ Goto("create")
    /\ Quiet /\ NoFault
    /\ UNCHANGED <<pw, inst, lock, output, listed, snapDir, found, pipe, now, tz, cfg, local, remote, verified>>

\* remoteBackupExists(outfile) holds: the volume is skipped.
SkipVolume ==
    /\ pc = "exists"
    /\ Named(Outfile, "") # {}
    /\ NextVolume
    /\ Quiet /\ NoFault
    /\ UNCHANGED <<pw, inst, lock, output, listed, snapDir, found, pipe, now, tz, cfg, local, remote, verified>>

\* remoteBackupExists(outfile) is false: no such file, or the ssh command failed.
Proceed ==
    /\ pc = "exists"
    /\ IF Named(Outfile, "") = {} THEN NoFault ELSE Fault
    /\ Goto("create")
    /\ Quiet
    /\ UNCHANGED <<pw, inst, lock, output, listed, snapDir, found, pipe, now, tz, cfg, local, remote, verified>>

\* A createSnapshot that drops the previous snapshot as it takes the new one.
CreateSnapshotRotating ==
    /\ pc = "create"
    /\ LET path == SnapPath(Format(run.currentTime))
       IN  \/ /\ run.dryRun \/ path \notin local[Vol]
              /\ local' = IF run.dryRun THEN local
                          ELSE [local EXCEPT ![Vol] = (@ \cup {path}) \ {run.oldSnap}]
              /\ pc' = "send"
              /\ Live
              /\ run' = [run EXCEPT !.newSnap = path]
              /\ UNCHANGED exitCode
              /\ NoFault
           \/ /\ ~run.dryRun
              /\ IF path \in local[Vol] THEN NoFault ELSE Fault
              /\ Exit("1") /\ End("create", "")
              /\ UNCHANGED local
    /\ Quiet
    /\ UNCHANGED <<pw, inst, lock, output, listed, snapDir, found, pipe, now, tz, cfg, remote, verified>>

\* A createSnapshot that reads the clock itself to name the snapshot.
CreateSnapshotOwnClock ==
    /\ pc = "create"
    /\ \E t \in run.currentTime..MaxTime :
       LET path == SnapPath(Format(t))
       IN  \/ /\ run.dryRun \/ path \notin local[Vol]
              /\ local' = IF run.dryRun THEN local
                          ELSE [local EXCEPT ![Vol] = @ \cup {path}]
              /\ pc' = "send"
              /\ Live
              /\ run' = [run EXCEPT !.newSnap = path]
              /\ UNCHANGED exitCode
              /\ NoFault
           \/ /\ ~run.dryRun
              /\ IF path \in local[Vol] THEN NoFault ELSE Fault
              /\ Exit("1") /\ End("create", "")
              /\ UNCHANGED local
    /\ Quiet
    /\ UNCHANGED <<pw, inst, lock, output, listed, snapDir, found, pipe, now, tz, cfg, remote, verified>>

\* createSnapshot: `btrfs subvolume snapshot -r` fails when the path is taken.
CreateSnapshot ==
    /\ pc = "create"
    /\ LET path == SnapPath(Format(run.currentTime))
       IN  \/ /\ run.dryRun \/ path \notin local[Vol]
              /\ local' = IF run.dryRun THEN local
                          ELSE [local EXCEPT ![Vol] = @ \cup {path}]
              /\ pc' = "send"
              /\ Live
              /\ run' = [run EXCEPT !.newSnap = path]
              /\ UNCHANGED exitCode
              /\ NoFault
           \/ /\ ~run.dryRun
              /\ IF path \in local[Vol] THEN NoFault ELSE Fault
              /\ Exit("1") /\ End("create", "")
              /\ UNCHANGED local
    /\ Quiet
    /\ UNCHANGED <<pw, inst, lock, output, listed, snapDir, found, pipe, now, tz, cfg, remote, verified>>

\* --------------------------------------------------------- sendSnapshot
\* The output of `btrfs send [-p oldSnap] newSnap` for volume v.
BtrfsSend(v, base, newSnap) ==
    [key |-> NoKey, vol |-> v, base |-> base, snap |-> newSnap.ts, part |-> "all"]
\* The output of `age -r key` reading bytes.
Age(key, bytes) == [bytes EXCEPT !.key = key]
\* The stream with the encryption stage left out.
StreamPlain(c, plain) == plain
\* stream: what the TeeReader reads, hashes and hands to ssh.
Stream(c, plain) ==
    IF c.EncryptionKey # NoKey THEN Age(c.EncryptionKey, plain) ELSE plain
\* A prefix of the bytes, and other bytes in their place.
Truncated(bytes) == [bytes EXCEPT !.part = "some"]
Corrupted(bytes) == [bytes EXCEPT !.part = "other"]
\* A remote write: the file replaces any file of the same name.
Put(files, f) ==
    {g \in files : ~(NameOf(g) = NameOf(f) /\ g.ext = f.ext)} \cup {f}
TmpFile(d) == File(Vol, Outfile.ts, Outfile.kind, ".tmp", Base, d)

\* Dry run: the pipeline is printed, "" and nil are returned.
SendDryRun ==
    /\ pc = "send"
    /\ run.dryRun
    /\ pc' = "move"
    /\ Live
    /\ run' = [run EXCEPT !.checksum = NoChecksum]
    /\ Quiet /\ NoFault
    /\ UNCHANGED <<pw, inst, lock, output, listed, snapDir, found, pipe, now, tz, cfg, local, remote, exitCode, verified>>

\* The stages start.  Either one of them fails to start (or ssh to connect)
\* before the remote shell opens the temp file, or `cat > tmp` is running.
SendBegin ==
    /\ pc = "send"
    /\ ~run.dryRun
    /\ \/ Goto("sendfail") /\ UNCHANGED remote /\ Fault
       \/ /\ Goto("sending")
          /\ remote' = Put(remote, TmpFile(Truncated(
                            Stream(cfg, BtrfsSend(Vol, Base, run.newSnap)))))
          /\ NoFault
    /\ Quiet
    /\ UNCHANGED <<pw, inst, lock, output, listed, snapDir, found, pipe, now, tz, cfg, local, verified>>

\* sshCmd.Run and the Wait calls return.  On success the digest of the
\* forwarded stream is returned; what the remote stored is not compared.
SendEnd ==
    /\ pc = "sending"
    /\ \/ Goto("sendfail") /\ UNCHANGED remote /\ Fault
       \/ LET stream == Stream(cfg, BtrfsSend(Vol, Base, run.newSnap))
          IN  \E d \in {stream, Corrupted(stream)} :
            /\ IF d = stream THEN NoFault ELSE Fault
            /\ remote' = Put(remote, TmpFile(d))
            /\ pc' = "move"
            /\ Live
            /\ run' = [run EXCEPT !.checksum = Sha256(stream)]
            /\ UNCHANGED exitCode
    /\ Quiet
    /\ UNCHANGED <<pw, inst, lock, output, listed, snapDir, found, pipe, now, tz, cfg, local, verified>>

\* A cleanup that removes the final file in place of the temp file.
SendCleanupFinal ==
    /\ pc = "sendfail"
    /\ remote' = remote \ Named(Outfile, "") /\ NoFault /\ End("send", "ok")
    /\ Exit("1")
    /\ Quiet
    /\ UNCHANGED <<pw, inst, lock, output, listed, snapDir, found, pipe, now, tz, cfg, local, verified>>

\* The deferred cleanup of sendSnapshot: `rm -f tmp`, its error only logged;
\* then main() exits on the error returned.
SendCleanup ==
    /\ pc = "sendfail"
    /\ \/ remote' = remote \ Named(Outfile, ".tmp") /\ NoFault /\ End("send", "ok")
       \/ UNCHANGED remote /\ Fault /\ End("send", "failed")
    /\ Exit("1")
    /\ Quiet
    /\ UNCHANGED <<pw, inst, lock, output, listed, snapDir, found, pipe, now, tz, cfg, local, verified>>

\* ----------------------------------------------------------- moveTmpFile
\* Dry run: the mv and the printf commands are printed.
MoveDryRun ==
    /\ pc = "move"
    /\ run.dryRun
    /\ Goto("cleanup")
    /\ Quiet /\ NoFault
    /\ UNCHANGED <<pw, inst, lock, output, listed, snapDir, found, pipe, now, tz, cfg, local, remote, verified>>

\* A moveTmpFile whose failed rename lets the loop go on to the next volume.
RenameContinue ==
    /\ pc = "move"
    /\ ~run.dryRun
    /\ \/ NextVolume /\ UNCHANGED remote /\ Fault
       \/ \E t \in Named(Outfile, ".tmp") :
            /\ remote' = Put(remote \ {t}, [t EXCEPT !.ext = ""])
            /\ Goto(IF run.checksum # NoChecksum THEN "validate" ELSE "cleanup")
            /\ NoFault
    /\ Quiet
    /\ UNCHANGED <<pw, inst, lock, output, listed, snapDir, found, pipe, now, tz, cfg, local, verified>>

\* `mv tmp final` over ssh.
Rename ==
    /\ pc = "move"
    /\ ~run.dryRun
    /\ \/ Exit("1") /\ End("rename", "") /\ UNCHANGED remote /\ Fault
       \/ \E t \in Named(Outfile, ".tmp") :
            /\ remote' = Put(remote \ {t}, [t EXCEPT !.ext = ""])
            /\ Goto(IF run.checksum # NoChecksum THEN "validate" ELSE "cleanup")
            /\ NoFault
    /\ Quiet
    /\ UNCHANGED <<pw, inst, lock, output, listed, snapDir, found, pipe, now, tz, cfg, local, verified>>

\* A validation that accepts every file.
validateAnyChecksum(file, checksum) == TRUE

\* validateRemoteChecksum: sha256sum of the final file against the digest.
validateRemoteChecksum(file, checksum) == Sha256(file.data) = checksum

\* The call of validateRemoteChecksum in moveTmpFile: the command fails to
\* run, or its digest is compared.
Validate ==
    /\ pc = "validate"
    /\ \/ Goto("unreachable") /\ UNCHANGED verified /\ Fault
       \/ \E f \in Named(Outfile, "") :
            /\ IF validateRemoteChecksum(f, run.checksum)
               THEN Goto("sidecar") /\ verified' = verified \cup {Outfile}
               ELSE Goto("rollback") /\ UNCHANGED verified
            /\ NoFault
    /\ Quiet
    /\ UNCHANGED <<pw, inst, lock, output, listed, snapDir, found, pipe, now, tz, cfg, local, remote>>

\* Validation failed: `rm -f final`, its error dropped; the error is returned.
\* Where the checksum command could not reach the host, the outage that
\* failed it may fail the removal too.
Rollback ==
    /\ pc \in {"rollback", "unreachable"}
    /\ \/ remote' = remote \ Named(Outfile, "") /\ NoFault /\ End("validate", "ok")
       \/ /\ UNCHANGED remote
          /\ IF pc = "unreachable" THEN NoFault ELSE Fault
          /\ End("validate", "failed")
    /\ Exit("1")
    /\ Quiet
    /\ UNCHANGED <<pw, inst, lock, output, listed, snapDir, found, pipe, now, tz, cfg, local, verified>>

\* `printf '%s  %s\n' digest outfile > final.sha256` over ssh.
WriteSidecar ==
    /\ pc = "sidecar"
    /\ \/ /\ remote' = Put(remote, File(Vol, Outfile.ts, Outfile.kind,
                                        ".sha256", {}, run.checksum[2]))
          /\ Goto("cleanup")
          /\ NoFault
       \/ Exit("1") /\ End("sidecar", "") /\ UNCHANGED remote /\ Fault
    /\ Quiet
    /\ UNCHANGED <<pw, inst, lock, output, listed, snapDir, found, pipe, now, tz, cfg, local, verified>>

\* ----------------------------------------------------- cleanupOldBackups
\* A cleanupOldBackups whose error ends the run.
CleanupFatal ==
    /\ pc = "cleanup"
    /\ \E listing \in listRemoteBackups(remote, Vol) :
         LET args == RmArgs(ToDelete(listing.backups))
             named == FilesNamed(remote, args)
         IN  \/ /\ ~listing.err
                /\ args = {} \/ run.dryRun
                /\ NoFault
                /\ UNCHANGED remote
                /\ pruned' = [called |-> TRUE, listing |-> listing,
                              before |-> remote, deleted |-> {},
                              err |-> FALSE]
                /\ Goto("delete")
             \/ /\ ~listing.err /\ args # {} /\ ~run.dryRun
                /\ NoFault
                /\ remote' = remote \ named
                /\ pruned' = [called |-> TRUE, listing |-> listing,
                              before |-> remote, deleted |-> named,
                              err |-> FALSE]
                /\ Goto("delete")
             \/ /\ listing.err
                /\ Fault
                /\ UNCHANGED remote
                /\ pruned' = [called |-> TRUE, listing |-> listing,
                              before |-> remote, deleted |-> {},
                              err |-> TRUE]
                /\ Exit("1") /\ End("cleanup", "")
    /\ needs' = NoCall
    /\ UNCHANGED <<pw, inst, lock, output, listed, snapDir, found, pipe, now, tz, cfg, local, verified>>

\* Its error is logged by main() and the loop body goes on.
Cleanup ==
    /\ pc = "cleanup"
    /\ \E listing \in listRemoteBackups(remote, Vol) :
         LET args == RmArgs(ToDelete(listing.backups))
             named == FilesNamed(remote, args)
         IN  \/ /\ listing.err \/ args = {} \/ run.dryRun
                /\ IF listing.err THEN Fault ELSE NoFault
                /\ UNCHANGED remote
                /\ pruned' = [called |-> TRUE, listing |-> listing,
                              before |-> remote, deleted |-> {},
                              err |-> listing.err]
             \/ /\ ~listing.err /\ args # {} /\ ~run.dryRun
                /\ NoFault
                /\ remote' = remote \ named
                /\ pruned' = [called |-> TRUE, listing |-> listing,
                              before |-> remote, deleted |-> named,
                              err |-> FALSE]
             \/ /\ ~listing.err /\ args # {} /\ ~run.dryRun
                /\ Fault
                /\ \E gone \in SUBSET named :
                     /\ remote' = remote \ gone
                     /\ pruned' = [called |-> TRUE, listing |-> listing,
                                   before |-> remote, deleted |-> gone,
                                   err |-> TRUE]
    /\ Goto("delete")
    /\ needs' = NoCall
    /\ UNCHANGED <<pw, inst, lock, output, listed, snapDir, found, pipe, now, tz, cfg, local, verified>>

\* ----------------------------------------------------- deleteOldSnapshot
\* A deleteOldSnapshot that runs its command in a dry run too.
DeleteOldInDryRun ==
    /\ pc = "delete"
    /\ \/ /\ run.oldSnap # EmptyPath /\ run.oldSnap # run.newSnap
          /\ local' = [local EXCEPT ![Vol] = @ \ {run.oldSnap}]
          /\ NoFault
       \/ /\ run.oldSnap # EmptyPath /\ run.oldSnap # run.newSnap
          /\ UNCHANGED local
          /\ Fault
       \/ /\ run.oldSnap = EmptyPath \/ run.oldSnap = run.newSnap
          /\ UNCHANGED local
          /\ NoFault
    /\ NextVolume
    /\ Quiet
    /\ UNCHANGED <<pw, inst, lock, output, listed, snapDir, found, pipe, now, tz, cfg, remote, verified>>

\* A deleteOldSnapshot whose failure ends the run.
DeleteOldFatal ==
    /\ pc = "delete"
    /\ \/ /\ run.oldSnap # EmptyPath /\ run.oldSnap # run.newSnap
          /\ local' = IF run.dryRun THEN local
                      ELSE [local EXCEPT ![Vol] = @ \ {run.oldSnap}]
          /\ NoFault
          /\ NextVolume
       \/ /\ run.oldSnap # EmptyPath /\ run.oldSnap # run.newSnap /\ ~run.dryRun
          /\ UNCHANGED local
          /\ Fault
          /\ Exit("1") /\ End("delete", "")
       \/ /\ run.oldSnap = EmptyPath \/ run.oldSnap = run.newSnap
          /\ UNCHANGED local
          /\ NoFault
          /\ NextVolume
    /\ Quiet
    /\ UNCHANGED <<pw, inst, lock, output, listed, snapDir, found, pipe, now, tz, cfg, remote, verified>>

\* `btrfs subvolume delete oldSnap`; a failure is only logged.
DeleteOld ==
    /\ pc = "delete"
    /\ \/ /\ run.oldSnap # EmptyPath /\ run.oldSnap # run.newSnap
          /\ local' = IF run.dryRun THEN local
                      ELSE [local EXCEPT ![Vol] = @ \ {run.oldSnap}]
          /\ NoFault
       \/ /\ run.oldSnap # EmptyPath /\ run.oldSnap # run.newSnap /\ ~run.dryRun
          /\ UNCHANGED local
          /\ Fault
       \/ /\ run.oldSnap = EmptyPath \/ run.oldSnap = run.newSnap
          /\ UNCHANGED local
          /\ NoFault
    /\ NextVolume
    /\ Quiet
    /\ UNCHANGED <<pw, inst, lock, output, listed, snapDir, found, pipe, now, tz, cfg, remote, verified>>

\* The process is killed, or the host goes down, between two commands.
Crash ==
    /\ pc # "idle"
    /\ Exit("killed") /\ End("killed", "")
    /\ Quiet /\ Fault
    /\ UNCHANGED <<pw, inst, lock, output, listed, snapDir, found, pipe, now, tz, cfg, local, remote, verified>>

Next ==
    \/ StartRun
    \/ CheckAccess
    \/ Decide
    \/ SkipVolume
    \/ Proceed
    \/ CreateSnapshot
    \/ SendDryRun
    \/ SendBegin
    \/ SendEnd
    \/ SendCleanup
    \/ MoveDryRun
    \/ Rename
    \/ Validate
    \/ Rollback
    \/ WriteSidecar
    \/ Cleanup
    \/ DeleteOld
    \/ Crash

Spec == Init /\ [][Next]_vars

\* ------------------------------------------- the functions on their own
\* needsFullBackup applied, through the step of main() that calls it, to
\* every snapshot directory, inventory, threshold pair and time in bounds.
PolicyFiles ==
    {File(Volumes[1], w, k, "", {}, SomeBytes) :
        w \in 1..MaxPolicyStamp, k \in {"full", "inc"}}
PolicyDirs ==
    {{}} \cup {{ForeignPath}} \cup {{SnapPath(w)} : w \in 1..MaxPolicyStamp}

InitPolicy ==
    /\ now \in 1..(MaxPolicyStamp + 8 * Day)
    /\ tz = 0
    /\ cfg \in [MaxAgeDays : AgeChoices, MaxIncrementals : IncChoices,
                 EncryptionKey : {NoKey}]
    /\ \E dirs \in PolicyDirs :
         local = [v \in Range(Volumes) |-> IF v = Volumes[1] THEN dirs ELSE {}]
    /\ remote \in SUBSET PolicyFiles
    /\ pc = "volume"
    /\ run = [IdleRun EXCEPT !.currentTime = now, !.idx = 1]
    /\ exitCode = "running"
    /\ faults = MaxFaults
    /\ verified = {}
    /\ needs = NoCall
    /\ pruned = NoPrune
    /\ ended = NoEnd
    /\ inst = [i \in Instances |-> Off]
    /\ lock = {}
    /\ output = {}
    /\ listed = NoListing
    /\ snapDir = ReadDir({})
    /\ found = NotFound
    /\ pipe = NoPipe
    /\ pw = NoProgress

SpecPolicy == InitPolicy /\ [][Decide]_vars

\* cleanupOldBackups applied, through the step of main() that calls it, to
\* every remote directory in bounds: backups of the volume, one to a
\* timestamp, with or without their sidecars, and a backup of another volume.
RetentionNames ==
    {{[vol |-> Volumes[1], ts |-> w, kind |-> kinds[w]] : w \in DOMAIN kinds} :
        kinds \in UNION {[stamps -> {"full", "inc"}] :
                            stamps \in SUBSET (1..MaxStamp)}}
DataFile(n) == File(n.vol, n.ts, n.kind, "", {}, SomeBytes)
Sidecar(n) == File(n.vol, n.ts, n.kind, ".sha256", {}, SomeBytes)
OtherVolumeFile == File(Volumes[2], 1, "full", "", {}, SomeBytes)

InitRetention ==
    /\ now = MaxStamp
    /\ tz = 0
    /\ cfg = loadConfig([max_age_days |-> 0, max_incrementals |-> 0,
                         encryption_key |-> <<>>])
    /\ local = [v \in Range(Volumes) |-> {}]
    /\ \E names \in RetentionNames :
       \E bare \in {{}} \cup {{n} : n \in names} :
         remote = {DataFile(n) : n \in names}
                    \cup {Sidecar(n) : n \in names \ bare}
                    \cup {OtherVolumeFile}
    /\ pc = "cleanup"
    /\ run \in {[IdleRun EXCEPT !.currentTime = now, !.idx = 1, !.full = f] :
                    f \in BOOLEAN}
    /\ exitCode = "running"
    /\ faults = MaxFaults
    /\ verified = {}
    /\ needs = NoCall
    /\ pruned = NoPrune
    /\ ended = NoEnd
    /\ inst = [i \in Instances |-> Off]
    /\ lock = {}
    /\ output = {}
    /\ listed = NoListing
    /\ snapDir = ReadDir({})
    /\ found = NotFound
    /\ pipe = NoPipe
    /\ pw = NoProgress

SpecRetention == InitRetention /\ [][Cleanup]_vars

\* moveTmpFile applied, through the steps of main() that run it, to a temp
\* file that holds the stream, a part of it or other bytes, with or without
\* a digest, beside files an earlier invocation left under the same name
\* and an earlier backup of the volume.
MoveStream(full) ==
    BtrfsSend(Volumes[1], IF full THEN {} ELSE {1}, SnapPath(2))
MoveRun(full, dry, checksum) ==
    [IdleRun EXCEPT !.dryRun = dry, !.currentTime = 2, !.idx = 1,
                    !.oldSnap = IF full THEN EmptyPath ELSE SnapPath(1),
                    !.newSnap = SnapPath(2), !.full = full,
                    !.checksum = checksum]
MoveName(full) ==
    [vol |-> Volumes[1], ts |-> 2, kind |-> IF full THEN "full" ELSE "inc"]

InitMove ==
    /\ now = 2
    /\ tz = 0
    /\ cfg = loadConfig([max_age_days |-> 0, max_incrementals |-> 0,
                         encryption_key |-> <<>>])
    /\ local = [v \in Range(Volumes) |->
                  IF v = Volumes[1] THEN {SnapPath(1), SnapPath(2)} ELSE {}]
    /\ \E full \in BOOLEAN, dry \in BOOLEAN :
       \E checksum \in {NoChecksum, Sha256(MoveStream(full))} :
       \E d \in {MoveStream(full), Truncated(MoveStream(full)),
                 Corrupted(MoveStream(full))} :
       \E left \in SUBSET {"", ".sha256"}, earlier \in SUBSET {"", ".sha256"} :
         /\ run = MoveRun(full, dry, checksum)
         /\ dry => checksum = NoChecksum
         /\ remote =
              {File(Volumes[1], 2, MoveName(full).kind, ".tmp",
                    IF full THEN {} ELSE {1}, d)}
              \cup {File(Volumes[1], 2, MoveName(full).kind, e,
                         IF full THEN {} ELSE {1}, MoveStream(full)) : e \in left}
              \cup {File(Volumes[1], 1, "full", e, {}, SomeBytes) : e \in earlier}
    /\ pc = "move"
    /\ exitCode = "running"
    /\ faults \in 0..MaxFaults
    /\ verified = {}
    /\ needs = NoCall
    /\ pruned = NoPrune
    /\ ended = NoEnd
    /\ inst = [i \in Instances |-> Off]
    /\ lock = {}
    /\ output = {}
    /\ listed = NoListing
    /\ snapDir = ReadDir({})
    /\ found = NotFound
    /\ pipe = NoPipe
    /\ pw = NoProgress

MoveNext == MoveDryRun \/ Rename \/ Validate \/ Rollback \/ WriteSidecar
SpecMove == InitMove /\ [][MoveNext]_vars

\* ------------------------------------------------- the lock of main()
\* Invocations on one host, from the start of main() to the end of the
\* process.  The lock of flock(2) belongs to the open file description: it
\* goes with LOCK_UN, and with the descriptor when the process ends.
\* os.Exit, the return of main() or a kill: the process of invocation i is
\* gone and its descriptors are closed.
ExitProcess(i, code, step) ==
    /\ inst' = [inst EXCEPT ![i].at = "off", ![i].code = code,
                            ![i].step = step, ![i].vol = 0]
    /\ lock' = lock \ {i}

\* The invocation starts: flag.Parse.
Launch(i) ==
    /\ inst[i].at = "off"
    /\ inst' = [inst EXCEPT ![i] = [Off EXCEPT !.at = "open", !.code = "running"]]
    /\ UNCHANGED lock

\* os.OpenFile of the lock file; os.Exit(1) when it fails.
OpenLockFile(i) ==
    /\ inst[i].at = "open"
    /\ \/ inst' = [inst EXCEPT ![i].at = "flock"] /\ UNCHANGED lock
       \/ ExitProcess(i, "1", "open")

\* A lock request that every descriptor is granted (LOCK_SH).
FlockShared(i) ==
    /\ inst[i].at = "flock"
    /\ lock' = lock \cup {i}
    /\ inst' = [inst EXCEPT ![i].at = "config"]

\* syscall.Flock(fd, LOCK_EX|LOCK_NB): granted when no other descriptor holds
\* the lock, and failing at once otherwise; os.Exit(1) when it fails.
Flock(i) ==
    /\ inst[i].at = "flock"
    /\ IF lock \ {i} = {}
       THEN /\ lock' = lock \cup {i}
            /\ inst' = [inst EXCEPT ![i].at = "config"]
       ELSE ExitProcess(i, "1", "flock")

\* loadConfig and time.Now; os.Exit(1) when the config cannot be loaded.
LoadConfig(i) ==
    /\ inst[i].at = "config"
    /\ \/ inst' = [inst EXCEPT ![i].at = "work", ![i].vol = 1] /\ UNCHANGED lock
       \/ ExitProcess(i, "1", "config")

\* The loop body of main() for one volume, with its commands on the snapshot
\* directory and the remote; after the last volume main() returns, and the
\* deferred LOCK_UN and Close run.
Work(i) ==
    /\ inst[i].at = "work"
    /\ IF inst[i].vol < Len(Volumes)
       THEN /\ inst' = [inst EXCEPT ![i].vol = @ + 1, ![i].touched = TRUE]
            /\ UNCHANGED lock
       ELSE /\ inst' = [inst EXCEPT ![i].at = "off", ![i].code = "0",
                                    ![i].step = "done", ![i].vol = 0,
                                    ![i].touched = TRUE]
            /\ lock' = lock \ {i}

\* os.Exit(1) in the loops of main(): the deferred calls do not run.
Fatal(i) ==
    /\ inst[i].at = "work"
    /\ ExitProcess(i, "1", "work")

\* The process is killed.
Kill(i) ==
    /\ inst[i].at # "off"
    /\ ExitProcess(i, "killed", "killed")

LockNext ==
    /\ \E i \in Instances :
        \/ Launch(i)
        \/ OpenLockFile(i)
        \/ Flock(i)
        \/ LoadConfig(i)
        \/ Work(i)
        \/ Fatal(i)
        \/ Kill(i)
    /\ UNCHANGED <<pw, now, tz, cfg, local, remote, pc, run, exitCode, faults,
                   verified, needs, pruned, ended, output, listed, snapDir,
                   found, pipe>>

SpecLock == Init /\ [][LockNext]_vars

\* ------------------------------------------------- listRemoteBackups
\* listRemoteBackups applied to every output of `ls -1` in bounds, under both
\* suffixes: lines of backups of the volume, and lines that differ from one in
\* a single place.
GoodLines ==
    {[pad |-> FALSE, vol |-> Volumes[1], form |-> "stamp", ts |-> w,
      kind |-> k, suffix |-> x, ext |-> ""] :
        w \in 1..MaxListStamp, k \in {"full", "inc"},
        x \in {".btrfs", ".btrfs.age"}}
ListingLines ==
    UNION {{g,
            [g EXCEPT !.pad = TRUE],
            [g EXCEPT !.vol = Volumes[2]],
            [g EXCEPT !.form = "digits"],
            [g EXCEPT !.form = "text"],
            [g EXCEPT !.kind = "bak"],
            [g EXCEPT !.ext = ".tmp"],
            [g EXCEPT !.ext = ".sha256"]} : g \in GoodLines}

\* The sets of at most n elements of S.
RECURSIVE UpTo(_, _)
UpTo(S, n) ==
    IF n = 0 THEN {{}}
    ELSE LET fewer == UpTo(S, n - 1)
         IN  fewer \cup {o \cup {x} : o \in fewer, x \in S}

InitListing ==
    /\ now = 0
    /\ tz = 0
    /\ cfg \in {loadConfig(y) : y \in ConfigFiles}
    /\ local = [v \in Range(Volumes) |-> {}]
    /\ remote = {}
    /\ pc = "idle"
    /\ run = IdleRun
    /\ exitCode = "none"
    /\ faults = MaxFaults
    /\ verified = {}
    /\ needs = NoCall
    /\ pruned = NoPrune
    /\ ended = NoEnd
    /\ inst = [i \in Instances |-> Off]
    /\ lock = {}
    /\ output \in UpTo(ListingLines, MaxLines)
    /\ listed = NoListing
    /\ snapDir = ReadDir({})
    /\ found = NotFound
    /\ pipe = NoPipe
    /\ pw = NoProgress

\* One call of listRemoteBackups for the first volume: cmd.Output fails, or
\* its lines are parsed and sorted.
ListBackups ==
    /\ ~listed.called
    /\ \/ listed' = [called |-> TRUE, failed |-> TRUE, err |-> TRUE,
                     backups |-> <<>>]
       \/ \E l \in parseListing(cfg, Volumes[1], output) :
            listed' = [called |-> TRUE, failed |-> FALSE, err |-> FALSE,
                       backups |-> l]
    /\ UNCHANGED <<pw, now, tz, cfg, local, remote, pc, run, exitCode, faults,
                   verified, needs, pruned, ended, inst, lock, output,
                   snapDir, found, pipe>>

SpecListing == InitListing /\ [][ListBackups]_vars

\* ------------------------------------------------- latestSnapshot
\* latestSnapshot applied to every snapshot directory in bounds: missing, or
\* holding each name as a directory, as a file, or not at all.
DirNames == {SnapPath(w) : w \in 1..MaxPolicyStamp} \cup {ForeignPath}
DirReads ==
    {[err |-> TRUE, entries |-> {}]} \cup
    {[err |-> FALSE,
      entries |-> {[path |-> n, isDir |-> what[n] = "dir"] :
                      n \in {m \in DirNames : what[m] # "none"}}] :
        what \in [DirNames -> {"none", "dir", "file"}]}

InitLatest ==
    /\ now = 0
    /\ tz = 0
    /\ cfg \in {loadConfig(y) : y \in ConfigFiles}
    /\ local = [v \in Range(Volumes) |-> {}]
    /\ remote = {}
    /\ pc = "idle"
    /\ run = IdleRun
    /\ exitCode = "none"
    /\ faults = MaxFaults
    /\ verified = {}
    /\ needs = NoCall
    /\ pruned = NoPrune
    /\ ended = NoEnd
    /\ inst = [i \in Instances |-> Off]
    /\ lock = {}
    /\ output = {}
    /\ listed = NoListing
    /\ snapDir \in DirReads
    /\ found = NotFound
    /\ pipe = NoPipe
    /\ pw = NoProgress

\* One call of latestSnapshot; the error it returns is nil on every path.
LatestSnapshot ==
    /\ ~found.called
    /\ found' = [called |-> TRUE, path |-> latestSnapshot(snapDir), err |-> FALSE]
    /\ UNCHANGED <<pw, now, tz, cfg, local, remote, pc, run, exitCode, faults,
                   verified, needs, pruned, ended, inst, lock, output, listed,
                   snapDir, pipe>>

SpecLatest == InitLatest /\ [][LatestSnapshot]_vars

\* ------------------------------------------------- the pipeline of sendSnapshot
\* The stages of one sendSnapshot call from the first Start, for every stream
\* of up to MaxStream chunks, with and without encryption.
InitPipe ==
    /\ now = 0
    /\ tz = 0
    /\ cfg \in {loadConfig(y) : y \in ConfigFiles}
    /\ local = [v \in Range(Volumes) |-> {}]
    /\ remote = {}
    /\ pc = "idle"
    /\ run = IdleRun
    /\ exitCode = "none"
    /\ faults = MaxFaults
    /\ verified = {}
    /\ needs = NoCall
    /\ pruned = NoPrune
    /\ ended = NoEnd
    /\ inst = [i \in Instances |-> Off]
    /\ lock = {}
    /\ output = {}
    /\ listed = NoListing
    /\ snapDir = ReadDir({})
    /\ found = NotFound
    /\ pipe \in {NewPipe(cfg.EncryptionKey # NoKey, n) : n \in 0..MaxStream}
    /\ pw = NoProgress

\* The pipe the copier reads, and whether its writer is gone.
Source == IF pipe.enc THEN pipe.p2 ELSE pipe.p1
SourceClosed ==
    IF pipe.enc THEN pipe.encryptCmd # "run" ELSE pipe.sendCmd # "run"

\* sendCmd.Start() starts btrfs send,
SendStart ==
    /\ pipe.main = "sendCmd.Start"
    /\ pipe' = [pipe EXCEPT !.sendCmd = "run",
                            !.main = IF pipe.enc THEN "encryptCmd.Start"
                                     ELSE "Run"]
\* or fails, and sendSnapshot returns "btrfs send start failed".
SendStartFails ==
    /\ pipe.main = "sendCmd.Start"
    /\ pipe' = [pipe EXCEPT !.sendCmd = "failed", !.main = "returned"]
\* encryptCmd.Start() starts age,
AgeStart ==
    /\ pipe.main = "encryptCmd.Start"
    /\ pipe' = [pipe EXCEPT !.encryptCmd = "run", !.main = "Run"]
\* or fails, and sendSnapshot returns "age start failed".
AgeStartFails ==
    /\ pipe.main = "encryptCmd.Start"
    /\ pipe' = [pipe EXCEPT !.encryptCmd = "failed", !.main = "returned"]
\* sshCmd.Run() starts ssh and the goroutine that copies its stdin,
SshStart ==
    /\ pipe.main = "Run" /\ pipe.sshCmd = "unstarted"
    /\ pipe' = [pipe EXCEPT !.sshCmd = "run", !.copier = "run"]
\* or fails to start it and returns the error at once.
SshStartFails ==
    /\ pipe.main = "Run" /\ pipe.sshCmd = "unstarted"
    /\ pipe' = [pipe EXCEPT !.sshCmd = "failed", !.main = "sendCmd.Wait"]

\* btrfs send writes a chunk to its stdout; the write blocks while the pipe is
\* full.  This process keeps the read end of StdoutPipe open until
\* sendCmd.Wait returns, so the write does not fail for want of a reader.
SendWrite ==
    /\ pipe.sendCmd = "run" /\ pipe.left > 0 /\ pipe.p1 < PipeCap
    /\ pipe' = [pipe EXCEPT !.left = @ - 1, !.p1 = @ + 1]
\* btrfs send has written the stream and exits.
SendExit ==
    /\ pipe.sendCmd = "run" /\ pipe.left = 0
    /\ pipe' = [pipe EXCEPT !.sendCmd = "done"]
\* btrfs send fails or is killed.
SendKilled ==
    /\ pipe.sendCmd = "run"
    /\ pipe' = [pipe EXCEPT !.sendCmd = "dead"]

\* age reads a chunk from btrfs send's pipe and writes it to its stdout.
AgeCopy ==
    /\ pipe.encryptCmd = "run" /\ pipe.p1 > 0 /\ pipe.p2 < PipeCap
    /\ pipe' = [pipe EXCEPT !.p1 = @ - 1, !.p2 = @ + 1]
\* age reads end of file and exits.
AgeExit ==
    /\ pipe.encryptCmd = "run" /\ pipe.p1 = 0 /\ pipe.sendCmd # "run"
    /\ pipe' = [pipe EXCEPT !.encryptCmd = "done"]
\* age fails or is killed.
AgeKilled ==
    /\ pipe.encryptCmd = "run"
    /\ pipe' = [pipe EXCEPT !.encryptCmd = "dead"]

\* The copy of sshCmd.Stdin: a Read of the TeeReader,
CopierRead ==
    /\ pipe.copier = "run" /\ pipe.held = 0 /\ Source > 0
    /\ pipe' = IF pipe.enc THEN [pipe EXCEPT !.p2 = @ - 1, !.held = 1]
               ELSE [pipe EXCEPT !.p1 = @ - 1, !.held = 1]
\* a Write to ssh's stdin pipe, which blocks while the pipe is full and fails
\* once ssh is gone,
CopierWrite ==
    /\ pipe.copier = "run" /\ pipe.held = 1
    /\ \/ /\ pipe.sshCmd = "run" /\ pipe.p3 < PipeCap
          /\ pipe' = [pipe EXCEPT !.held = 0, !.p3 = @ + 1]
       \/ /\ pipe.sshCmd # "run"
          /\ pipe' = [pipe EXCEPT !.held = 0, !.copier = "done"]
\* and the end of file, after which the pipe to ssh is closed.
CopierEOF ==
    /\ pipe.copier = "run" /\ pipe.held = 0 /\ Source = 0 /\ SourceClosed
    /\ pipe' = [pipe EXCEPT !.copier = "done"]

\* ssh reads a chunk of its stdin and sends it to the remote `cat`.
SshRead ==
    /\ pipe.sshCmd = "run" /\ pipe.p3 > 0
    /\ pipe' = [pipe EXCEPT !.p3 = @ - 1]
\* ssh reads end of file and exits.
SshExit ==
    /\ pipe.sshCmd = "run" /\ pipe.p3 = 0 /\ pipe.copier = "done"
    /\ pipe' = [pipe EXCEPT !.sshCmd = "done"]
\* ssh fails (the connection is lost, the remote disk is full) or is killed.
SshKilled ==
    /\ pipe.sshCmd = "run"
    /\ pipe' = [pipe EXCEPT !.sshCmd = "dead"]

\* sshCmd.Run returns: ssh has exited and the copy of its stdin has ended.
SshRunReturns ==
    /\ pipe.main = "Run" /\ pipe.sshCmd # "run" /\ pipe.copier = "done"
    /\ pipe' = [pipe EXCEPT !.main = "sendCmd.Wait",
                            !.waited = @ \cup {"sshCmd"}]
\* sendCmd.Wait returns: btrfs send has exited.
SendWaitReturns ==
    /\ pipe.main = "sendCmd.Wait" /\ pipe.sendCmd # "run"
    /\ pipe' = [pipe EXCEPT !.main = IF pipe.enc THEN "encryptCmd.Wait"
                                     ELSE "returned",
                            !.waited = @ \cup {"sendCmd"}]
\* encryptCmd.Wait returns: age has exited; sendSnapshot returns.
EncryptWaitReturns ==
    /\ pipe.main = "encryptCmd.Wait" /\ pipe.encryptCmd # "run"
    /\ pipe' = [pipe EXCEPT !.main = "returned",
                            !.waited = @ \cup {"encryptCmd"}]

\* The steps the stages and sendSnapshot take of themselves, and all steps.
PipeSteps ==
    /\ \/ SendStart
       \/ AgeStart
       \/ SshStart
       \/ SendWrite
       \/ SendExit
       \/ AgeCopy
       \/ AgeExit
       \/ CopierRead
       \/ CopierWrite
       \/ CopierEOF
       \/ SshRead
       \/ SshExit
       \/ SshRunReturns
       \/ SendWaitReturns
       \/ EncryptWaitReturns
    /\ UNCHANGED <<pw, now, tz, cfg, local, remote, pc, run, exitCode, faults,
                   verified, needs, pruned, ended, inst, lock, output, listed,
                   snapDir, found>>
PipeKills ==
    /\ \/ SendStartFails
       \/ AgeStartFails
       \/ SshStartFails
       \/ SendKilled
       \/ AgeKilled
       \/ SshKilled
    /\ UNCHANGED <<pw, now, tz, cfg, local, remote, pc, run, exitCode, faults,
                   verified, needs, pruned, ended, inst, lock, output, listed,
                   snapDir, found>>
PipeNext == PipeSteps \/ PipeKills

\* Every stage and goroutine that can take a step takes one in the end; no
\* stage has to fail.
SpecPipe == InitPipe /\ [][PipeNext]_vars /\ WF_vars(PipeSteps)

\* ------------------------------------------------- runs on other hosts
\* Hosts whose configuration sets a small max_incrementals and no other
\* threshold, and whose first snapshot directory is empty or holds a
\* subvolume that is not of the tool's making.
HostConfigFiles ==
    {[max_age_days |-> 0, max_incrementals |-> 1, encryption_key |-> <<>>],
     [max_age_days |-> 0, max_incrementals |-> 2, encryption_key |-> <<>>]}
HostSnapDirs == {{}, {ForeignPath}}

InitHost ==
    /\ now = 0
    /\ tz = 0
    /\ cfg \in {loadConfig(y) : y \in HostConfigFiles}
    /\ \E dirs \in HostSnapDirs :
         local = [v \in Range(Volumes) |-> IF v = Volumes[1] THEN dirs ELSE {}]
    /\ remote = {}
    /\ pc = "idle"
    /\ run = IdleRun
    /\ exitCode = "none"
    /\ faults = MaxFaults
    /\ verified = {}
    /\ needs = NoCall
    /\ pruned = NoPrune
    /\ ended = NoEnd
    /\ inst = [i \in Instances |-> Off]
    /\ lock = {}
    /\ output = {}
    /\ listed = NoListing
    /\ snapDir = ReadDir({})
    /\ found = NotFound
    /\ pipe = NoPipe
    /\ pw = NoProgress

SpecHost == InitHost /\ [][Next]_vars

\* ------------------------------------------------- the progress writer
InitProgress ==
    /\ now = 0
    /\ tz = 0
    /\ cfg \in {loadConfig(y) : y \in ConfigFiles}
    /\ local = [v \in Range(Volumes) |-> {}]
    /\ remote = {}
    /\ pc = "idle"
    /\ run = IdleRun
    /\ exitCode = "none"
    /\ faults = MaxFaults
    /\ verified = {}
    /\ needs = NoCall
    /\ pruned = NoPrune
    /\ ended = NoEnd
    /\ inst = [i \in Instances |-> Off]
    /\ lock = {}
    /\ output = {}
    /\ listed = NoListing
    /\ snapDir = ReadDir({})
    /\ found = NotFound
    /\ pipe = NoPipe
    /\ pw = NewProgressWriter

\* A goroutine g reads or writes a counter: it does so bare when it does not
\* hold the mutex.
Access(g) == pw.bare \/ pw.mu # g

\* The ticker sends a tick; updateTicker.C holds one tick, a tick that finds
\* it full is dropped.
TickerFires ==
    /\ pw.updateTicker = "running"
    /\ pw' = [pw EXCEPT !.tick = TRUE]

\* displayLoop: the select receives a tick,
DisplayTick ==
    /\ pw.loop = "select" /\ pw.tick
    /\ pw' = [pw EXCEPT !.tick = FALSE, !.loop = "Lock"]
\* or the value Finish sends on done, and returns;
DisplayDone ==
    /\ pw.loop = "select" /\ pw.fin = "send"
    /\ pw' = [pw EXCEPT !.loop = "returned", !.fin = "Lock"]
\* pw.mu.Lock() returns once the mutex is free;
DisplayLock ==
    /\ pw.loop = "Lock" /\ pw.mu = "free"
    /\ pw' = [pw EXCEPT !.mu = "displayLoop", !.loop = "locked"]
\* the counters are read, lastBytes is set, the line is printed, and the
\* mutex is unlocked.
DisplayUpdate ==
    /\ pw.loop = "locked"
    /\ pw' = [pw EXCEPT !.lastBytes = pw.bytesWritten,
                        !.shown = pw.bytesWritten,
                        !.bare = Access("displayLoop"),
                        !.mu = IF @ = "displayLoop" THEN "free" ELSE @,
                        !.loop = "select"]

\* Write(p) is called with a buffer of n bytes,
WriteCall ==
    /\ pw.write = "idle" /\ pw.calls < MaxWrites
    /\ \E n \in 0..MaxChunk :
           pw' = [pw EXCEPT !.p = n, !.calls = @ + 1, !.write = "Lock"]
\* a Lock that does not take the mutex,
WriteLockNone ==
    /\ pw.write = "Lock"
    /\ pw' = [pw EXCEPT !.write = "locked"]
\* pw.mu.Lock() returns once the mutex is free,
WriteLock ==
    /\ pw.write = "Lock" /\ pw.mu = "free"
    /\ pw' = [pw EXCEPT !.mu = "Write", !.write = "locked"]
\* the length is added to bytesWritten and the mutex is unlocked,
WriteAdd ==
    /\ pw.write = "locked"
    /\ pw' = [pw EXCEPT !.bytesWritten = @ + pw.p,
                        !.bare = Access("Write"),
                        !.mu = IF @ = "Write" THEN "free" ELSE @,
                        !.write = "unlocked"]
\* and Write returns n, nil.
WriteReturn ==
    /\ pw.write = "unlocked"
    /\ pw' = [pw EXCEPT !.total = @ + pw.p,
                        !.ret = [n |-> pw.p, err |-> FALSE],
                        !.write = "idle"]

\* Finish stops the ticker and sends on done, which blocks until displayLoop
\* receives (DisplayDone);
FinishCall ==
    /\ pw.fin = "idle"
    /\ pw' = [pw EXCEPT !.updateTicker = "stopped", !.fin = "send"]
\* pw.mu.Lock() returns once the mutex is free;
FinishLock ==
    /\ pw.fin = "Lock" /\ pw.mu = "free"
    /\ pw' = [pw EXCEPT !.mu = "Finish", !.fin = "locked"]
\* the total is read and printed, and the deferred Unlock runs.
FinishPrint ==
    /\ pw.fin = "locked"
    /\ pw' = [pw EXCEPT !.shown = pw.bytesWritten,
                        !.bare = Access("Finish"),
                        !.mu = IF @ = "Finish" THEN "free" ELSE @,
                        !.fin = "returned"]

ProgressNext ==
    /\ \/ TickerFires
       \/ DisplayTick
       \/ DisplayDone
       \/ DisplayLock
       \/ DisplayUpdate
       \/ WriteCall
       \/ WriteLock
       \/ WriteAdd
       \/ WriteReturn
       \/ FinishCall
       \/ FinishLock
       \/ FinishPrint
    /\ UNCHANGED <<now, tz, cfg, local, remote, pc, run, exitCode, faults,
                   verified, needs, pruned, ended, inst, lock, output, listed,
                   snapDir, found, pipe>>

SpecProgress == InitProgress /\ [][ProgressNext]_vars

\* ================================================================ claims
\* The backups of volume v on the remote, and the full ones among them.
Entries(files, v) == Matches(files, v)
Fulls(files, v) == {f \in Entries(files, v) : f.kind = "full"}
\* The most recent full entries (one, or none) of volume v.
LastFull(files, v) ==
    {f \in Fulls(files, v) : \A g \in Fulls(files, v) : g.ts <= f.ts}
\* The second-to-last full entries (one, or none) of volume v.
SecondLastFull(files, v) ==
    {f \in Fulls(files, v) :
        Cardinality({g \in Fulls(files, v) : g.ts > f.ts}) = 1}

\* C1. Atomic commit: whenever a file is visible under a backup's final
\* name, the checksum validation of that backup has succeeded.
C1_AtomicCommit ==
    \A f \in remote : f.ext = "" => NameOf(f) \in verified

\* A complete chain of volume v: a full entry such that every incremental
\* entry at or after it has its base snapshot's entry on the remote, inside
\* the chain and before it.
HasCompleteChain(v) ==
    LET entries == Entries(remote, v)
    IN  \E f \in entries :
          /\ f.kind = "full"
          /\ \A e \in entries :
                e.kind = "inc" /\ e.ts >= f.ts =>
                    \E b \in entries :
                        b.ts \in e.base /\ b.ts >= f.ts /\ b.ts < e.ts

\* C2. Restorability: after any sequence of runs, failing or not, a volume
\* that has backups on the remote has a complete chain among them.
C2_Restorable ==
    \A v \in Range(Volumes) : Entries(remote, v) # {} => HasCompleteChain(v)

\* C2's case: retention has just deleted entries of a volume, in a history
\* in which a step has failed.
C2_Witness ==
    /\ pruned.called /\ pruned.deleted # {}
    /\ HasCompleteChain(Vol)
    /\ faults < MaxFaults

\* ------------------------------------------- claims on cleanupOldBackups
\* The backups the last call of cleanupOldBackups deleted.
DeletedEntries == {f \in pruned.deleted : f.ext = ""}
\* The files of volume v: backups, temp files and sidecars.
FilesOf(files, v) == {f \in files : f.vol = v}
\* The inventory [full@1, inc@2, full@3, inc@4] of the volume.
ExampleChains ==
    {[vol |-> Vol, ts |-> 1, kind |-> "full"], [vol |-> Vol, ts |-> 2, kind |-> "inc"],
     [vol |-> Vol, ts |-> 3, kind |-> "full"], [vol |-> Vol, ts |-> 4, kind |-> "inc"]}

\* C3. Whether it succeeds or fails, cleanupOldBackups deletes neither the
\* most recent full entry nor any file of an entry at or after its timestamp.
C3_KeepsLatestChain ==
    pruned.called =>
        \A f \in pruned.deleted, l \in LastFull(pruned.before, Vol) :
            f.vol = Vol /\ f.ts < l.ts /\ l \in remote

\* C3's case: a successful call deleted entries of an inventory whose most
\* recent full is followed by an incremental.
C3_Witness ==
    /\ pruned.called /\ ~pruned.err /\ DeletedEntries # {}
    /\ \E l \in LastFull(pruned.before, Vol), e \in Entries(remote, Vol) :
         e.kind = "inc" /\ e.ts > l.ts

\* C4 as stated: a successful call deletes exactly the entries older than
\* the most recent full entry.
C4_Original ==
    pruned.called /\ ~pruned.err =>
        DeletedEntries =
            {f \in Entries(pruned.before, Vol) :
                \E l \in LastFull(pruned.before, Vol) : f.ts < l.ts}

\* C4, amended. A successful call deletes exactly the entries older than
\* the second-to-last full entry; on [full@1, inc@2, full@3, inc@4] it
\* deletes nothing and retains all four.
C4_Amended ==
    pruned.called /\ ~pruned.err =>
        /\ DeletedEntries =
             {f \in Entries(pruned.before, Vol) :
                 \E s \in SecondLastFull(pruned.before, Vol) : f.ts < s.ts}
        /\ {NameOf(f) : f \in Entries(pruned.before, Vol)} = ExampleChains =>
             /\ pruned.deleted = {}
             /\ {NameOf(f) : f \in Entries(remote, Vol)} = ExampleChains

\* C4's case: a successful call on [full@1, inc@2, full@3, inc@4].
C4_Witness ==
    /\ pruned.called /\ ~pruned.err
    /\ {NameOf(f) : f \in Entries(pruned.before, Vol)} = ExampleChains
    /\ {NameOf(f) : f \in Entries(remote, Vol)} = ExampleChains

\* C5. A successful call keeps the last two full chains: with fewer than two
\* full entries it deletes nothing; otherwise the files of the volume left on
\* the remote are those at or after the second-to-last full, each deleted
\* entry going together with its sidecar in the one command; the files of
\* other volumes stay.
C5_KeepsTwoChains ==
    pruned.called /\ ~pruned.err =>
        /\ Cardinality(Fulls(pruned.before, Vol)) < 2 => pruned.deleted = {}
        /\ \A s \in SecondLastFull(pruned.before, Vol) :
             FilesOf(remote, Vol) =
                {f \in FilesOf(pruned.before, Vol) : f.ts >= s.ts}
        /\ \A f \in DeletedEntries : Named(NameOf(f), ".sha256") = {}
        /\ \A v \in Range(Volumes) \ {Vol} :
             FilesOf(remote, v) = FilesOf(pruned.before, v)

\* C5's case: a successful call deleted an entry and its sidecar and left
\* two full entries.
C5_Witness ==
    /\ pruned.called /\ ~pruned.err
    /\ \E f \in DeletedEntries : \E g \in pruned.deleted :
         g.ext = ".sha256" /\ NameOf(g) = NameOf(f)
    /\ Cardinality(Fulls(remote, Vol)) = 2

\* ---------------------------------------------- claims on needsFullBackup
\* The remote holds an entry of the volume stamped as the snapshot is.
HasEntryFor(snap) ==
    \E f \in Entries(remote, Vol) : Parse(f.ts) = Parse(snap.ts)
\* The call retrieved the inventory of the volume.
Retrieved == needs.called /\ needs.listed /\ ~needs.listing.err
\* The incremental entries after the entry l.
IncrementalsAfter(l) ==
    {f \in Entries(remote, Vol) : f.kind = "inc" /\ f.ts > l.ts}

\* C6. When the remote has no entry stamped as the latest local snapshot, or
\* the snapshot's name carries no timestamp, needsFullBackup answers full and
\* the run sends a full stream; an incremental run has its base on the remote.
C6_GapDetection ==
    needs.called /\ needs.oldSnap # EmptyPath =>
        /\ ~HasTimestamp(needs.oldSnap) \/ ~HasEntryFor(needs.oldSnap) =>
             needs.full /\ run.full /\ Base = {}
        /\ ~run.full =>
             \E f \in Entries(remote, Vol) : Base = {f.ts}

\* C6's case: the remote has a fresh full and no rule but the gap applies.
C6_Witness ==
    /\ Retrieved /\ HasTimestamp(needs.oldSnap) /\ ~HasEntryFor(needs.oldSnap)
    /\ cfg.MaxAgeDays = 0 /\ cfg.MaxIncrementals = 0
    /\ Fulls(remote, Vol) # {}
    /\ needs.full

\* C7. With no local snapshot needsFullBackup answers full and does not list
\* the remote.
C7_NoLocalSnapshot ==
    needs.called /\ local[Vol] = {} =>
        needs.oldSnap = EmptyPath /\ needs.full /\ ~needs.listed /\ run.full

\* C7's case: no local snapshot while the remote has a full entry.
C7_Witness ==
    /\ needs.called /\ local[Vol] = {} /\ Fulls(remote, Vol) # {}
    /\ needs.full /\ ~needs.listed

\* C8. When the listing fails needsFullBackup answers full and the run goes
\* on; when the retrieved inventory is empty it answers full.
C8_ListingFailure ==
    /\ needs.called /\ needs.listed /\ needs.listing.err =>
         needs.full /\ run.full /\ pc = "exists" /\ exitCode = "running"
    /\ Retrieved /\ Entries(remote, Vol) = {} => needs.full /\ run.full

\* C8's case: the listing failed where the inventory called for an
\* incremental.
C8_Witness ==
    /\ needs.called /\ needs.listed /\ needs.listing.err
    /\ HasTimestamp(needs.oldSnap) /\ HasEntryFor(needs.oldSnap)
    /\ \E l \in LastFull(remote, Vol) : l.ts = needs.oldSnap.ts
    /\ cfg.MaxAgeDays = 0 /\ cfg.MaxIncrementals = 0
    /\ needs.full /\ pc = "exists"

ReferenceIncremental ==
    /\ local[Vol] # {}
    /\ ~needs.listing.err
    /\ Entries(remote, Vol) # {}
    /\ \E d \in local[Vol] :
         /\ \A e \in local[Vol] : e = d \/ NameLess(e, d)
         /\ HasTimestamp(d)
         /\ \E f \in Entries(remote, Vol) : f.ts = d.ts
    /\ Fulls(remote, Vol) # {}
    /\ \A l \in LastFull(remote, Vol) :
         /\ cfg.MaxAgeDays = 0 \/ needs.currentTime - l.ts < cfg.MaxAgeDays * Day
         /\ \/ cfg.MaxIncrementals = 0
            \/ Cardinality(IncrementalsAfter(l)) < cfg.MaxIncrementals

Chosen == pc \notin {"idle", "access", "volume"}

\* C12. In a forced run every volume gets a full backup: the name says full,
\* the stream has no base, and needsFullBackup is not called.
C12_ForcedFull ==
    run.force /\ Chosen =>
        /\ run.full /\ Outfile.kind = "full" /\ Base = {}
        /\ ~needs.called
        /\ \A t \in Named(Outfile, ".tmp") \cup Named(Outfile, "") :
             t.kind = "full" /\ t.base = {}

\* C12's case: a forced run has sent a full stream although the latest local
\* snapshot has its entry on the remote after a fresh full and no threshold
\* is reached.
C12_Witness ==
    /\ run.force /\ ~run.dryRun /\ pc = "move"
    /\ cfg.MaxIncrementals = 0 /\ cfg.MaxAgeDays = DefaultMaxAgeDays
    /\ HasTimestamp(run.oldSnap) /\ HasEntryFor(run.oldSnap)
    /\ Fulls(remote, Vol) # {}
    /\ \E t \in Named(Outfile, ".tmp") : t.base = {}

\* ------------------------------------------------ claims on sendSnapshot
\* The files of the remote that are not temp files.
Settled(files) == {f \in files : f.ext # ".tmp"}
\* The temp files of the backup the ended invocation was at.
LeftTmp == {f \in remote : NameOf(f) = ended.outfile /\ f.ext = ".tmp"}

\* C13. When sendSnapshot returns an error outside a dry run, the removal of
\* the temp file has been run before main() exits, no step of sendSnapshot
\* has written or removed a file other than the temp file, and no temp file
\* is left when the removal succeeded.
C13_SendFailure ==
    /\ [](ended.step = "send" =>
            /\ ~ended.dryRun /\ exitCode = "1"
            /\ ended.rm \in {"ok", "failed"}
            /\ ended.rm = "ok" => LeftTmp = {})
    /\ [][/\ pc \in {"send", "sending", "sendfail"} =>
                Settled(remote') = Settled(remote)
          /\ pc \in {"send", "sending"} /\ exitCode' = "1" => FALSE
          /\ pc = "sendfail" /\ exitCode' = "1" => ended'.step = "send"]_vars

\* C13's case: sendSnapshot failed after the temp file was written, the
\* removal succeeded, and an earlier backup of the volume is on the remote.
C13_Witness ==
    /\ ended.step = "send" /\ ended.rm = "ok"
    /\ \E f \in ended.had : f.ext = ".tmp"
    /\ LeftTmp = {}
    /\ Entries(remote, ended.vol) # {}

\* C14. When sendSnapshot has returned success outside a dry run, the temp
\* file on the remote holds the bytes whose digest it returned.
C14_IntegrityChecked ==
    pc = "move" /\ ~run.dryRun =>
        \A t \in Named(Outfile, ".tmp") : Sha256(t.data) = run.checksum

\* The bytes the claim names: the producer's stream of this run's snapshot,
\* encrypted to the configured recipient when there is one.
OwnStream ==
    [key |-> cfg.EncryptionKey, vol |-> Vol, base |-> Base,
     snap |-> run.newSnap.ts, part |-> "all"]

LeftFiles == {f \in remote : NameOf(f) = ended.outfile}

\* C16. When moveTmpFile has returned the error of the validation, neither
\* the final file, nor the temp file, nor a sidecar of the backup is on the
\* remote.
C16_MismatchLeavesNothing ==
    ended.step = "validate" => LeftFiles = {}

\* The checksum sidecars among the files.
Sidecars(files) == {f \in files : f.ext = ".sha256"}

\* C17. A step of moveTmpFile writes a sidecar only when the call has
\* renamed the temp file and validated the final file, and the sidecar then
\* stands beside a final file of the digest it records; given no digest
\* outside a dry run, the call renames and writes no sidecar.
C17_SidecarAfterValidation ==
    [][/\ Sidecars(remote') # Sidecars(remote) =>
            /\ pc = "sidecar" /\ pc' = "cleanup"
            /\ Outfile \in verified
            /\ Named(Outfile, ".tmp") = {}
            /\ \E f \in Named(Outfile, "") :
                 /\ Sha256(f.data) = run.checksum
                 /\ f \in remote'
                 /\ Sidecars(remote') \ Sidecars(remote) =
                      {[f EXCEPT !.ext = ".sha256", !.base = {}]}
       /\ pc = "move" /\ ~run.dryRun /\ run.checksum = NoChecksum =>
            /\ Sidecars(remote') = Sidecars(remote)
            /\ pc' = "cleanup" =>
                 /\ Named(Outfile, ".tmp") # {}
                 /\ {f \in remote' : NameOf(f) = Outfile /\ f.ext = ""} =
                      {[t EXCEPT !.ext = ""] : t \in Named(Outfile, ".tmp")}
                 /\ \A t \in Named(Outfile, ".tmp") : t \notin remote'
      ]_vars

\* C17's case: moveTmpFile has returned nil after it renamed the temp file,
\* validated the final file and wrote the sidecar.
C17_Witness ==
    /\ pc = "cleanup" /\ ~run.dryRun /\ run.checksum # NoChecksum
    /\ Outfile \in verified
    /\ Named(Outfile, ".tmp") = {}
    /\ \E f \in Named(Outfile, ""), s \in Named(Outfile, ".sha256") :
         f.data = s.data /\ Sha256(s.data) = run.checksum

\* ------------------------------------------- claims on the end of a run
\* C18, its part on temp files. When an invocation has ended on an error of
\* sendSnapshot or of moveTmpFile, no temp file of the backup it was at is
\* on the remote.
C18_NoTempAfterFailure ==
    ended.step \in {"send", "rename", "validate", "sidecar"} => LeftTmp = {}

\* The snapshot directories a step removes.
Removed == UNION {local[v] \ local'[v] : v \in Range(Volumes)}

\* C19. A step removes a local snapshot only as deleteOldSnapshot, after the
\* run has created the new snapshot and committed its backup on the remote,
\* and then the previous snapshot alone; so when an invocation ends on an
\* error of createSnapshot, sendSnapshot or moveTmpFile, the previous
\* snapshot of the volume still exists.
C19_DeleteAfterCommit ==
    /\ [](/\ ended.step \in {"create", "send", "rename", "validate", "sidecar"}
          /\ ended.oldSnap # EmptyPath
          => ended.oldSnap \in local[ended.vol])
    /\ [][Removed # {} =>
            /\ pc = "delete" /\ ~run.dryRun
            /\ Removed = {run.oldSnap}
            /\ run.newSnap \in local[Vol] /\ run.newSnap # run.oldSnap
            /\ Named(Outfile, "") # {} /\ Named(Outfile, ".tmp") = {}
            /\ run.checksum # NoChecksum => Outfile \in verified]_vars

\* C19's case: sendSnapshot failed in a run that had a previous snapshot, and
\* the previous and the new snapshot are both there.
C19_Witness ==
    /\ ended.step = "send" /\ ~ended.dryRun
    /\ ended.oldSnap # EmptyPath /\ ended.newSnap # ended.oldSnap
    /\ {ended.oldSnap, ended.newSnap} \subseteq local[ended.vol]

\* C20. When a run outside a dry run has gone through a volume to the end of
\* the loop body, exactly one snapshot directory is in the volume's snapshot
\* directory.
C20_OneSnapshot ==
    [][/\ pc = "delete" /\ ~run.dryRun
       /\ pc' \in {"volume", "idle"} /\ exitCode' \in {"running", "0"}
       => Cardinality(local'[Vol]) = 1]_vars

\* ------------------------------------------- claims on the loop of main()
\* A step in which createSnapshot, sendSnapshot or moveTmpFile returns an
\* error to main(): the step of that call does not lead to the next call.
FatalStep ==
    /\ exitCode' # "killed"
    /\ \/ pc = "create" /\ pc' # "send"
       \/ pc = "sendfail"
       \/ pc = "move" /\ pc' \notin {"validate", "cleanup"}
       \/ pc \in {"rollback", "unreachable"}
       \/ pc = "sidecar" /\ pc' # "cleanup"

\* C21. Fail-fast: when createSnapshot, sendSnapshot or moveTmpFile fails
\* for a volume, the process exits with code 1 there; once the process is
\* gone nothing changes a snapshot directory or the remote, so no volume
\* after the failing one is touched; and the exit code is 0 only for a run
\* that went through the loop to the return of main().
C21_FailFast ==
    /\ [][FatalStep => exitCode' = "1" /\ pc' = "idle" /\ run' = IdleRun]_vars
    /\ [][pc = "idle" => local' = local /\ remote' = remote]_vars
    /\ [][exitCode' = "0" /\ pc # "idle" =>
            /\ ~FatalStep
            /\ pc \in {"exists", "delete"} /\ run.idx = Len(Volumes)]_vars
    /\ [](exitCode = "0" => ended.step = "done")

\* C21's case: the run ended with code 1 on an error at the first volume,
\* and the second volume has neither a snapshot nor a file on the remote.
C21_Witness ==
    /\ exitCode = "1"
    /\ ended.step \in {"create", "send", "rename", "validate", "sidecar"}
    /\ ended.vol = Volumes[1]
    /\ local[Volumes[1]] # {}
    /\ local[Volumes[2]] = {} /\ FilesOf(remote, Volumes[2]) = {}

\* A step of the access loop of a run for which a volume is inaccessible.
AccessDenied == pc = "access" /\ faults' < faults /\ exitCode' # "killed"

\* C22 as stated. In every run in which a volume is inaccessible, the access
\* loop ends the process with code 1 and nothing has been changed.
C22_Original ==
    [][AccessDenied =>
        exitCode' = "1" /\ pc' = "idle" /\ UNCHANGED <<local, remote>>]_vars

\* C22, amended. Outside a dry run the access loop ends the process with
\* code 1, with nothing changed, when a volume is inaccessible; only a dry
\* run goes past the loop with an inaccessible volume, and such a run changes
\* neither a snapshot directory nor the remote.
C22_Amended ==
    /\ [][AccessDenied /\ ~run.dryRun =>
            exitCode' = "1" /\ pc' = "idle" /\ UNCHANGED <<local, remote>>]_vars
    /\ [][pc = "access" => UNCHANGED <<local, remote>>]_vars
    /\ [](run.denied => run.dryRun)
    /\ [][run.denied => UNCHANGED <<local, remote>>]_vars

\* C22's case: a run that is not a dry run has ended in the access loop, with
\* snapshots and backups of earlier runs in place.
C22_Witness ==
    /\ ended.step = "access" /\ ~ended.dryRun /\ exitCode = "1"
    /\ \E v \in Range(Volumes) : local[v] # {} /\ Entries(remote, v) # {}

\* ------------------------------------------- claims on the lock
\* The invocations that are past the lock acquisition.
PastLock == {i \in Instances : inst[i].at \in {"config", "work"}}

\* C23. Single instance: at most one invocation is past the lock
\* acquisition, and it is the holder of the lock; an invocation that has
\* touched a volume has been past it; an invocation that could not take the
\* lock has exited with code 1 and touched nothing; and the lock of an
\* invocation that has exited, however it did, is released.
C23_SingleInstance ==
    /\ Cardinality(PastLock) <= 1
    /\ lock = PastLock
    /\ \A i \in Instances :
        /\ inst[i].touched => inst[i].at = "work" \/ inst[i].step \in {"work", "done", "killed"}
        /\ inst[i].step \in {"open", "flock"} => inst[i].code = "1" /\ ~inst[i].touched
        /\ inst[i].at = "off" => i \notin lock

\* C23's case: an invocation was refused the lock and has exited with code 1
\* while the holder is in the loop over the volumes.
C23_Witness ==
    \E i, j \in Instances :
        /\ i # j
        /\ inst[i].at = "work" /\ inst[i].touched /\ lock = {i}
        /\ inst[j].at = "off" /\ inst[j].step = "flock" /\ inst[j].code = "1"

\* ------------------------------------------- claims on the call of cleanup
\* The backup of the volume the loop is at was transferred and committed
\* when cleanupOldBackups was called: outside a dry run its final file was
\* on the remote, validated, with its sidecar and without a temp file.
CommittedBefore ==
    \/ run.dryRun
    \/ /\ \E f \in pruned.before : NameOf(f) = Outfile /\ f.ext = ""
       /\ \E f \in pruned.before : NameOf(f) = Outfile /\ f.ext = ".sha256"
       /\ \A f \in pruned.before : NameOf(f) = Outfile => f.ext # ".tmp"
       /\ Outfile \in verified

\* C24. cleanupOldBackups is called for a volume only in a run that has
\* transferred and committed the volume's backup, and its failure does not
\* end the run: the loop body goes on to deleteOldSnapshot, which removes
\* the previous snapshot unless the removal itself fails, and from there to
\* the next volume or to the return of main() with code 0.
C24_CleanupNotFatal ==
    /\ [](pruned.called =>
            /\ pc = "delete" /\ exitCode = "running"
            /\ CommittedBefore)
    /\ [][pruned.called /\ pruned.err /\ exitCode' # "killed" =>
            /\ pc' = "volume" \/ (pc' = "idle" /\ exitCode' = "0")
            /\ run.idx < Len(Volumes) => pc' = "volume"
            /\ (/\ ~run.dryRun /\ faults' = faults
                /\ run.oldSnap # EmptyPath /\ run.oldSnap # run.newSnap)
               => run.oldSnap \notin local'[Vol]]_vars

\* C24's case: outside a dry run, cleanupOldBackups has failed for a volume
\* that has a previous snapshot, and the run is at deleteOldSnapshot.
C24_Witness ==
    /\ pruned.called /\ pruned.err /\ ~run.dryRun
    /\ pc = "delete"
    /\ run.oldSnap # EmptyPath /\ run.oldSnap # run.newSnap
    /\ run.oldSnap \in local[Vol]

\* C25. In a run whose backup of a volume is incremental, and is on the
\* remote when cleanupOldBackups is called, the call deletes no backup entry
\* of that volume.
C25_CleanupAfterFullOnly ==
    /\ pruned.called /\ ~run.full
    /\ \E f \in pruned.before : NameOf(f) = Outfile /\ f.ext = ""
    => DeletedEntries = {}

\* ------------------------------------------- claims on listRemoteBackups
\* The lines of the output that fit the grammar
\* <volume>-<timestamp>.(full|inc)<suffix> for the volume and the configured
\* suffix, with a valid timestamp.
WellFormed ==
    {x \in output :
        /\ ~x.pad /\ x.vol = Volumes[1] /\ x.form = "stamp"
        /\ x.kind \in {"full", "inc"} /\ x.ext = ""
        /\ x.suffix = remoteFileSuffix(cfg)}
\* The entries are in ascending order of timestamp, each with the kind and
\* the timestamp its name holds.
ParsedAndSorted ==
    /\ \A i, j \in 1..Len(listed.backups) :
         i < j => listed.backups[i].ts <= listed.backups[j].ts
    /\ \A i \in 1..Len(listed.backups) :
         /\ listed.backups[i].kind = listed.backups[i].name.kind
         /\ listed.backups[i].ts = listed.backups[i].name.ts

\* C26. listRemoteBackups returns an error, and no list, when the listing
\* fails; otherwise it returns no error and exactly the lines of the output
\* that fit the grammar for the volume and the configured suffix, one entry
\* for each, parsed and in ascending order of timestamp.
C26_Listing ==
    listed.called =>
        /\ listed.failed <=> listed.err
        /\ listed.err => listed.backups = <<>>
        /\ ~listed.err =>
            /\ {listed.backups[i].name : i \in 1..Len(listed.backups)} = WellFormed
            /\ Len(listed.backups) = Cardinality(WellFormed)
            /\ ParsedAndSorted

\* What holds of every output: the entries are the lines that fit the
\* grammar once the white space around them is dropped.
ListingOfTrimmedLines ==
    listed.called =>
        /\ listed.failed <=> listed.err
        /\ listed.err => listed.backups = <<>>
        /\ ~listed.err =>
            /\ {listed.backups[i].name : i \in 1..Len(listed.backups)}
                 \subseteq {TrimLine(x) : x \in output}
            /\ \A x \in output :
                 TrimLine(x) \in {listed.backups[i].name : i \in 1..Len(listed.backups)}
                    <=> \E y \in GoodLines : TrimLine(x) = y /\ y.suffix = remoteFileSuffix(cfg)
            /\ (\A x \in output : ~x.pad) =>
                 /\ {listed.backups[i].name : i \in 1..Len(listed.backups)} = WellFormed
                 /\ Len(listed.backups) = Cardinality(WellFormed)
            /\ ParsedAndSorted

\* ------------------------------------------- claims on names
\* C27. Name round trip: the timestamp extractSnapshotTimestamp reads from
\* the snapshot path createSnapshot made of the run's current time is that
\* time.
C27_RoundTrip ==
    run.newSnap # EmptyPath =>
        /\ HasTimestamp(run.newSnap)
        /\ extractSnapshotTimestamp(run.newSnap) = run.currentTime

\* The names of the subdirectories of the snapshot directory.
Subdirectories == {e.path : e \in {x \in snapDir.entries : x.isDir}}

\* C28. latestSnapshot returns no error; it returns the empty path when the
\* snapshot directory is missing, is empty or holds no subdirectory, and
\* otherwise the path of a subdirectory than whose name no subdirectory has a
\* greater one, whatever the entries that are not directories.
C28_LatestSnapshot ==
    found.called =>
        /\ ~found.err
        /\ IF snapDir.err \/ Subdirectories = {}
           THEN found.path = EmptyPath
           ELSE /\ found.path \in Subdirectories
                /\ ~\E d \in Subdirectories : NameLess(found.path, d)

\* C28's case: the directory holds subdirectories and a file whose name is
\* greater than theirs, and the latest subdirectory was returned.
C28_Witness ==
    /\ found.called /\ found.path = SnapPath(2)
    /\ Cardinality(Subdirectories) >= 2
    /\ [path |-> ForeignPath, isDir |-> FALSE] \in snapDir.entries

\* ------------------------------------------- claims on dry runs
\* C29. Dry run: no step of a run with the dry-run flag changes a snapshot
\* directory or the remote directory, so both are after the run what they
\* were before it; and sendSnapshot returns the empty digest and no error,
\* the run going on to moveTmpFile.
C29_DryRun ==
    /\ [][run.dryRun => UNCHANGED <<local, remote>>]_vars
    /\ [][run.dryRun /\ pc = "send" /\ exitCode' # "killed" =>
            pc' = "move" /\ run'.checksum = NoChecksum]_vars
    /\ [](run.dryRun /\ pc \in {"move", "cleanup", "delete"} =>
            run.checksum = NoChecksum)

\* C29's case: a dry run has gone through the last volume, which has a
\* previous snapshot and backups on the remote, and has returned.
C29_Witness ==
    /\ ended.step = "done" /\ ended.dryRun /\ exitCode = "0"
    /\ ended.oldSnap # EmptyPath /\ ended.oldSnap \in local[ended.vol]
    /\ Entries(remote, ended.vol) # {}

\* ------------------------------------------- claims on the pipeline
\* C30. Pipeline termination: whatever the length of the stream and whichever
\* stages fail or are killed, and when, sendSnapshot returns.
C30_Returns == <>(pipe.main = "returned")

\* C31: under every interleaving of the Write calls of the forwarding path,
\* the ticks of displayLoop and Finish, no counter is read or written by a
\* goroutine that does not hold the mutex; bytesWritten is the sum of the
\* lengths of the Write calls that returned, plus the length of the call
\* that has added its length and not yet returned; lastBytes never exceeds
\* bytesWritten; and Write returns the length of its buffer and no error.
C31_ProgressCounter ==
    /\ ~pw.bare
    /\ pw.bytesWritten =
          pw.total + (IF pw.write = "unlocked" THEN pw.p ELSE 0)
    /\ pw.lastBytes <= pw.bytesWritten
    /\ pw.shown <= pw.bytesWritten
    /\ pw.calls > 0 /\ pw.write = "idle" =>
          pw.ret = [n |-> pw.p, err |-> FALSE]
\* Two Write calls with data returned, displayLoop has sampled the counter
\* between them and again holds the mutex while a third call waits for it.
C31_Witness ==
    /\ pw.total > 1 /\ pw.lastBytes > 0 /\ pw.lastBytes < pw.bytesWritten
    /\ pw.mu = "displayLoop" /\ pw.write = "Lock" /\ pw.p > 0

\* C32: when `btrfs subvolume delete` fails in deleteOldSnapshot, the step
\* changes neither the remote directory nor the snapshot directories, and
\* the run goes on: to the next volume with the process still running, or,
\* after the last volume, to the return of main() with exit code 0.
C32_DeleteBestEffort ==
    [][(pc = "delete" /\ faults' < faults /\ ended'.step # "killed") =>
          /\ remote' = remote
          /\ local' = local
          /\ IF run.idx < Len(Volumes)
             THEN pc' = "volume" /\ run'.idx = run.idx + 1
                  /\ exitCode' = "running"
             ELSE pc' = "idle" /\ exitCode' = "0" /\ ended'.step = "done"]_vars
\* The delete of the first volume's previous snapshot failed (both snapshots
\* stand beside the committed backup of the newer one) and the run is at the
\* second volume.
C32_Witness ==
    /\ pc = "volume" /\ run.idx = 2 /\ ~run.dryRun /\ exitCode = "running"
    /\ faults < MaxFaults
    /\ Cardinality(local[Volumes[1]]) = 2
    /\ \E f \in Entries(remote, Volumes[1]) :
          f.ts = Format(run.currentTime) /\ NameOf(f) \in verified

\* C33: once a run has committed the backup of a volume, the snapshot it
\* created and the remote entry carry the same timestamp, the formatted time
\* main() read once at its start; that snapshot is the latest in the snapshot
\* directory and the gap check of needsFullBackup finds a remote entry for it,
\* also after the cleanup, after the deletion of the previous snapshot and
\* when the run has returned.
C33_JoinKey ==
    /\ pc \in {"cleanup", "delete"} /\ ~run.dryRun =>
          /\ run.newSnap = SnapPath(Format(run.currentTime))
          /\ run.newSnap \in local[Vol]
          /\ latestSnapshot(ReadDir(local[Vol])) = run.newSnap
          /\ \E f \in Named(Outfile, "") : f.ts = run.newSnap.ts
          /\ HasEntryFor(run.newSnap)
    /\ (/\ pc = "idle" /\ ended.step = "done" /\ ~ended.dryRun
        /\ ended.newSnap # EmptyPath) =>
          /\ latestSnapshot(ReadDir(local[ended.vol])) = ended.newSnap
          /\ \E f \in Entries(remote, ended.vol) :
                /\ f.ts = ended.newSnap.ts
                /\ Parse(f.ts) = extractSnapshotTimestamp(ended.newSnap)
\* A run has committed an incremental backup for both volumes under one
\* timestamp, in a zone other than UTC, and the previous snapshot of the
\* second volume is still to be deleted.
C33_Witness ==
    /\ pc = "delete" /\ ~run.dryRun /\ run.idx = 2 /\ ~run.full /\ tz # 0
    /\ run.oldSnap \in local[Vol]
    /\ \A v \in Range(Volumes) :
          \E f \in Entries(remote, v) :
             f.ts = Format(run.currentTime) /\ f.kind = "inc"

\* C34: every backup file on the remote, temporary or final, is named "inc"
\* exactly when its stream was made by `btrfs send -p <base>` and "full"
\* exactly when it was made without a base; and from the choice of the kind
\* to the end of the loop body a run that is not full has a previous
\* snapshot, so that sendSnapshot is never given an empty base.
C34_KindMatchesStream ==
    /\ \A f \in remote :
          f.ext \in {"", ".tmp"} =>
            /\ f.kind \in {"inc", "full"}
            /\ f.kind = "inc" <=> f.data.base # {}
            /\ f.kind = "full" <=> f.data.base = {}
            /\ f.data.base # {EmptyPath.ts}
    /\ pc \in {"exists", "create", "send", "sending", "sendfail", "move"}
          /\ ~run.full =>
            run.oldSnap # EmptyPath /\ HasTimestamp(run.oldSnap)
\* An incremental stream is being sent on top of the previous snapshot while
\* the full backup of that snapshot, made without a base, is on the remote.
C34_Witness ==
    /\ pc = "sending" /\ ~run.full /\ run.oldSnap \in local[Vol]
    /\ \E f \in Named(Outfile, ".tmp") : f.data.base = {run.oldSnap.ts}
    /\ \E g \in Fulls(remote, Vol) :
          g.ts = run.oldSnap.ts /\ g.data.base = {}

\* The stages of the pipeline that were started.
Started ==
    {c \in {"sendCmd", "encryptCmd", "sshCmd"} :
        pipe[c] \in {"run", "done", "dead"}}

\* C35: when sendSnapshot has returned, on success or with an error, Wait
\* has returned for every stage that was started, and none is running.
C35_AllWaited ==
    pipe.main = "returned" =>
        /\ Started \subseteq pipe.waited
        /\ \A c \in Started : pipe[c] # "run"

ChainOf(v, l) ==
    {f \in Entries(remote, v) :
        /\ f.kind = "inc" /\ f.ts > l.ts
        /\ ~\E g \in Fulls(remote, v) : l.ts < g.ts /\ g.ts < f.ts}

C38_DeletesOwnSnapshots ==
    (/\ pc = "delete" /\ ~run.dryRun
     /\ run.oldSnap # EmptyPath /\ run.oldSnap # run.newSnap) =>
        HasTimestamp(run.oldSnap)

====
